---- MODULE Spec2Model ----
(***************************************************************************)
(* A model of the Nest API client of src/api.py (class NestAPI).           *)
(*                                                                         *)
(* The client is one cooperative flow: a caller invokes one method at a    *)
(* time and the method runs until it awaits a response of the backend.     *)
(* The model keeps the client's fields, the stack of the coroutines that   *)
(* are suspended (stack), and the request that is on the wire (wire).      *)
(* A Call* action starts a method and runs it to its first request (or to  *)
(* its end); Respond delivers the backend's answer to the request on the   *)
(* wire and runs the suspended coroutines to the next request (or to the   *)
(* end of the method).                                                     *)
(*                                                                         *)
(* Strings that the code parses (bucket identifiers) are sequences of      *)
(* tokens: "device.T1" is <<"device", ".", "T1">>.                         *)
(***************************************************************************)
EXTENDS Integers, Sequences, FiniteSets, TLC

(***************************************************************************)
(* Bounds of the model.                                                    *)
(***************************************************************************)
\* the longest bucket list of a discovery response
MaxBuckets == 3
\* the longest bucket list of a device-pass response of update()
MaxUpdBuckets == 2
\* the failing answers the backend gives within one call of a client method:
\* to a polling client, to a client that signs in with Google and to the
\* client of an entry that is set up (SpecPoll, SpecGoogle, SpecSetup)
MaxFail == 3
\* to a client whose commands are retried (SpecRetry): two Transport calls of
\* three attempts each
MaxFailRetry == 6
\* to a client that discovers its devices (Spec), to one whose update()
\* decodes every kind of bucket (SpecDecode), to one whose update() asks
\* for the chime of its cameras (SpecChime) and to the client of a household
\* whose rooms are renamed (SpecHousehold)
MaxFailTopology == 1
\* a category list longer than this is not extended by another discovery
MaxListLen == 0
\* the largest raw status code a protect reports (the smallest is -1)
MaxCode == 4

(***************************************************************************)
(* Program constants.                                                      *)
(***************************************************************************)
max_retries == 3

None == "None"

(***************************************************************************)
(* Python string operations on token sequences.                            *)
(***************************************************************************)
\* s.startswith(p)
StartsWith(s, p) ==
    /\ Len(s) >= Len(p)
    /\ SubSeq(s, 1, Len(p)) = p

\* s.replace(p, ''): every non-overlapping occurrence of p, left to right
RECURSIVE Replace(_, _)
Replace(s, p) ==
    IF s = <<>> THEN <<>>
    ELSE IF StartsWith(s, p) THEN Replace(SubSeq(s, Len(p) + 1, Len(s)), p)
    ELSE <<Head(s)>> \o Replace(Tail(s), p)

\* s.split('.'): the list of the segments between the dots
RECURSIVE Split(_)
Split(s) ==
    IF s = <<>> THEN << <<>> >>
    ELSE IF Head(s) = "." THEN << <<>> >> \o Split(Tail(s))
    ELSE LET r == Split(Tail(s)) IN << <<Head(s)>> \o Head(r) >> \o Tail(r)

\* x in list
InList(x, list) == \E i \in 1..Len(list) : list[i] = x

\* a dict as a function; d[k] = v
Put(d, k, v) == [x \in (DOMAIN d) \cup {k} |-> IF x = k THEN v ELSE d[x]]
EmptyDict == [x \in {} |-> None]

\* d.get(k) and d.get(k, {})
Get(d, k) == IF k \in DOMAIN d THEN d[k] ELSE None
Get2(d, k) == IF k \in DOMAIN d THEN d[k] ELSE EmptyDict

(***************************************************************************)
(* The state.                                                              *)
(***************************************************************************)
VARIABLES
    device_data,          \* self.device_data: serial -> record of fields
    wheres,               \* self._wheres: where_id -> name
    user_id,              \* self._user_id
    access_token,         \* self._access_token
    issue_token,          \* self._issue_token
    cookie,               \* self._cookie
    czfe_url,             \* self._czfe_url
    cameras, thermostats, temperature_sensors,
    hotwatercontrollers, switches, protects,
    session,              \* self._session: None, or the default headers of
                          \* the open session
    headers,              \* self._headers: its Authorization value
    live,                 \* the number of aiohttp sessions created and not
                          \* closed
    stack,                \* the suspended coroutines, outermost first
    wire,                 \* the request awaiting its response, or None
    hist,                 \* what the running (or last) call has done so far
    fin,                  \* the Transport calls that ended in the last step
    resp,                 \* the response delivered in the last step
    last,                 \* how the last call ended
    hass                  \* the setup layer: hass.data[DOMAIN] and what
                          \* became of the config entry

vars == <<device_data, wheres, user_id, access_token, issue_token, cookie,
          czfe_url, cameras, thermostats, temperature_sensors,
          hotwatercontrollers, switches, protects, session, headers,
          live, stack, wire, hist, fin, resp, last, hass>>

(***************************************************************************)
(* Values.                                                                 *)
(***************************************************************************)
NoAuth == <<>>
Basic(t) == <<"Basic", t>>
Bearer(t) == <<"Bearer", t>>

NoneVal == [none |-> TRUE]
RawResponse == [raw |-> TRUE]
IsRaw(b) == "raw" \in DOMAIN b

\* aiohttp.ClientError and its subclass ClientResponseError with status 401;
\* asyncio.TimeoutError is no ClientError
IsClientError(e) == e \in {"ClientError", "ClientResponseError401"}

NoSession == [open |-> FALSE, auth |-> NoAuth]

\* no request is awaiting its response
NoWire == [ep |-> None]
\* no response was delivered in the last step
NoResp == [out |-> None]
\* async_setup: hass.data[DOMAIN] is empty and the entry has not been set up.
\* stored: the entry's client is in hass.data[DOMAIN]; result: what
\* async_setup_entry returned; unloaded: what async_unload_entry returned;
\* closes: the close() calls async_unload_entry has made on the stored client
NoEntry == [stored |-> FALSE, result |-> None, unloaded |-> None, closes |-> 0]

\* the machine: the client's fields and the coroutines, as one record
Machine ==
    [dd |-> device_data, wh |-> wheres, uid |-> user_id, tok |-> access_token,
     it |-> issue_token, ck |-> cookie, czfe |-> czfe_url,
     cam |-> cameras, th |-> thermostats, ts |-> temperature_sensors,
     hw |-> hotwatercontrollers, sw |-> switches, pr |-> protects,
     ses |-> session, hdr |-> headers, live |-> live,
     stack |-> stack, wire |-> wire, h |-> hist, fin |-> <<>>,
     sig |-> "io", val |-> NoneVal, exc |-> None, hass |-> hass]

Top(m) == m.stack[Len(m.stack)]
SetTop(m, f) == [m EXCEPT !.stack[Len(m.stack)] = f]
Pop(m) == [m EXCEPT !.stack = SubSeq(@, 1, Len(@) - 1)]
\* call a coroutine: its frame is pushed and started
Push(m, f) == [m EXCEPT !.stack = Append(@, f), !.sig = "call"]
\* the top coroutine returns v to its awaiter / raises e into its awaiter
Return(m, v) == [Pop(m) EXCEPT !.sig = "ret", !.val = v]
Raise(m, e) == [Pop(m) EXCEPT !.sig = "exc", !.exc = e]

(***************************************************************************)
(* _create_session and _do_request.                                        *)
(***************************************************************************)
\* _create_session: the session copies self._headers when it is created
CreateSession(m) ==
    IF ~m.ses.open
    THEN [m EXCEPT !.ses = [open |-> TRUE, auth |-> m.hdr],
                   !.live = @ + 1,
                   !.h.opened = @ + 1]
    ELSE m

\* the frame of one _do_request(method, url, **kwargs)
ReqFrame(ep, url, hashdr, auth, ck, form, json) ==
    [fn |-> "req", ep |-> ep, url |-> url, hashdr |-> hashdr, auth |-> auth,
     cookie |-> ck, form |-> form, json |-> json,
     attempt |-> 0, st |-> "start", sent |-> 0, n401 |-> 0,
     prev401 |-> FALSE,
     nlogin |-> 0, nlogdone |-> 0, nrefresh |-> 0]

\* session.request: the headers of the call override the session's defaults
Send(m, f) ==
    LET w == [ep |-> f.ep, url |-> f.url,
              auth |-> IF f.auth # NoAuth THEN f.auth ELSE m.ses.auth,
              cookie |-> f.cookie, form |-> f.form, json |-> f.json,
              attempt |-> f.attempt]
    IN [SetTop(m, [f EXCEPT !.st = "wait", !.sent = @ + 1]) EXCEPT
            !.wire = w, !.sig = "io", !.h.nreq = @ + 1]

\* the summary of a Transport call that ends
FinRec(f, res, e, cause, v) ==
    [ep |-> f.ep, sent |-> f.sent, res |-> res, exc |-> e,
     n401 |-> f.n401, nlogin |-> f.nlogin, nlogdone |-> f.nlogdone,
     nrefresh |-> f.nrefresh, cause |-> cause, hashdr |-> f.hashdr,
     val |-> v]

ReqReturn(m, f, v) ==
    [Return(m, v) EXCEPT
        !.fin = Append(@, FinRec(f, "ret", None, "response", v))]
ReqRaise(m, f, e, cause) ==
    [Raise(m, e) EXCEPT
        !.fin = Append(@, FinRec(f, "exc", e, cause, NoneVal))]

\* the frame of login()
LoginFrame == [fn |-> "login", st |-> "start", did |-> <<>>]

\* the retried attempt keeps the headers of the failed attempt
ReqAfterLogin_NoRefresh(m, f) ==
    Send(m, [f EXCEPT !.attempt = @ + 1, !.nlogdone = @ + 1])
\* lines 88-92: a 401 starts login(); when it returns the Authorization of
\* the call's own headers is refreshed
ReqAfterLogin(m, f) ==
    LET g == IF f.hashdr
             THEN [f EXCEPT !.auth = Basic(m.tok), !.nrefresh = @ + 1]
             ELSE f
    IN Send(m, [g EXCEPT !.attempt = @ + 1, !.nlogdone = @ + 1])

\* the loop runs one attempt more than max_retries
ReqFailed_OneMore(m, f0, e) ==
    LET is401 == e = "ClientResponseError401"
        f == [f0 EXCEPT !.n401 = IF is401 THEN @ + 1 ELSE @,
                        !.prev401 = is401]
    IN IF f.attempt = max_retries
       THEN ReqRaise(m, f, e, "response")
       ELSE IF is401
       THEN Push(SetTop(m, [f EXCEPT !.st = "login", !.nlogin = @ + 1]),
                 LoginFrame)
       ELSE Send(m, [f EXCEPT !.attempt = @ + 1])
\* only the first 401 of a call starts login()
ReqFailed_LoginOnce(m, f0, e) ==
    LET is401 == e = "ClientResponseError401"
        f == [f0 EXCEPT !.n401 = IF is401 THEN @ + 1 ELSE @,
                        !.prev401 = is401]
    IN IF f.attempt = max_retries - 1
       THEN ReqRaise(m, f, e, "response")
       ELSE IF is401 /\ f.nlogin = 0
       THEN Push(SetTop(m, [f EXCEPT !.st = "login", !.nlogin = @ + 1]),
                 LoginFrame)
       ELSE Send(m, [f EXCEPT !.attempt = @ + 1])
\* lines 82-90: an attempt failed with the ClientError e
ReqFailed(m, f0, e) ==
    LET is401 == e = "ClientResponseError401"
        f == [f0 EXCEPT !.n401 = IF is401 THEN @ + 1 ELSE @,
                        !.prev401 = is401]
    IN IF f.attempt = max_retries - 1
       THEN ReqRaise(m, f, e, "response")
       ELSE IF is401
       THEN Push(SetTop(m, [f EXCEPT !.st = "login", !.nlogin = @ + 1]),
                 LoginFrame)
       ELSE Send(m, [f EXCEPT !.attempt = @ + 1])

\* one step of a _do_request coroutine
ReqStep(m) ==
    LET f == Top(m) IN
    CASE m.sig = "call" -> Send(CreateSession(m), f)
      [] m.sig = "ret"  -> ReqAfterLogin(m, f)
      [] m.sig = "exc"  -> ReqRaise(m, f, m.exc, "login")

\* the response `out` arrives for the request on the wire
ReqResponse(m, out, body) ==
    LET f == Top(m)
        n == [m EXCEPT !.wire = NoWire]
    IN CASE out = "ok"      -> ReqReturn(n, f, body)
         [] out = "timeout" -> ReqRaise(n, f, "TimeoutError", "response")
         [] out = "e401"    -> ReqFailed(n, f, "ClientResponseError401")
         [] out = "err"     -> ReqFailed(n, f, "ClientError")

(***************************************************************************)
(* login, _login_google, _login_dropcam.                                   *)
(***************************************************************************)
API_URL == <<"home.nest.com">>

DropcamReq(m) ==
    ReqFrame("dropcam", API_URL, FALSE, NoAuth, None, m.tok, NoneVal)
IssueReq(m) ==
    ReqFrame("issue", <<m.it>>, TRUE, NoAuth, m.ck, None, NoneVal)
JwtReq(oauth) ==
    ReqFrame("jwt", <<"URL_JWT">>, TRUE, Bearer(oauth), None, None, NoneVal)

\* login() raises e into its awaiter
LoginRaise(m, e) ==
    [Raise(m, e) EXCEPT !.h.loginexc = e, !.h.logfail = Top(m).did]

\* login() awaits the Transport call req
LoginAwait(m, f, st, req) ==
    Push(SetTop(m, [f EXCEPT !.st = st, !.did = Append(@, req.ep)]), req)

\* the Google flow runs as soon as an issue token is configured
UsesGoogle_IssueTokenOnly(m) == m.it # None
\* line 96: if self._issue_token and self._cookie
UsesGoogle(m) == m.it # None /\ m.ck # None

\* lines 94-98: _login_dropcam has returned and login() returns
LoginDone(m, f) == [Return(m, NoneVal) EXCEPT !.h.logflow = f.did]

\* lines 126-131, on the response of the JWT request
LoginGoogleJwt(m, f) ==
    LET r == m.val IN
    IF IsRaw(r) THEN LoginRaise(m, "TypeError")
    ELSE IF "nestId" \notin DOMAIN r THEN LoginRaise(m, "KeyError")
    ELSE LET m1 == [m EXCEPT !.uid = r.nestId] IN
         IF "jwt" \notin DOMAIN r THEN LoginRaise(m1, "KeyError")
         ELSE LET m2 == [m1 EXCEPT !.tok = r.jwt, !.hdr = Basic(r.jwt)]
              IN LoginAwait(m2, f, "dc", DropcamReq(m2))

\* one step of a login coroutine (with _login_google inlined)
LoginStep(m) ==
    LET f == Top(m) IN
    CASE m.sig = "call" ->
            IF UsesGoogle(m)
            THEN LoginAwait(m, f, "g1", IssueReq(m))
            ELSE LoginAwait(m, f, "dc", DropcamReq(m))
      [] m.sig = "ret" /\ f.st = "g1" ->
            IF IsRaw(m.val) THEN LoginRaise(m, "TypeError")
            ELSE IF "access_token" \notin DOMAIN m.val THEN LoginRaise(m, "KeyError")
            ELSE LoginAwait(m, f, "g2", JwtReq(m.val.access_token))
      [] m.sig = "ret" /\ f.st = "g2" -> LoginGoogleJwt(m, f)
      [] m.sig = "ret" /\ f.st = "dc" -> LoginDone(m, f)
      [] m.sig = "exc" -> LoginRaise(m, m.exc)

(***************************************************************************)
(* _get_devices.                                                           *)
(***************************************************************************)
AppLaunchReq(m, types) ==
    ReqFrame("app_launch", API_URL \o <<m.uid>>, TRUE, Basic(m.tok), None,
             None, [known_bucket_types |-> types])

\* lines 185-204: the record seeded for a protect
ProtectStatic(bd) ==
    [model |-> Get(bd, "model"),
     device_info |-> [color |-> Get(bd, "device_external_color"),
                      locale |-> Get(bd, "device_locale"),
                      installed_locale |-> Get(bd, "installed_locale")],
     born_on_date |-> Get(bd, "device_born_on_date_utc_secs"),
     replace_by_date |-> Get(bd, "replace_by_date_utc_secs"),
     kl_software_version |-> Get(bd, "kl_software_version"),
     network |-> [wifi |-> [mac |-> Get(bd, "wifi_mac_address"),
                            regulatory_domain |->
                                Get(bd, "wifi_regulatory_domain")],
                  thread |-> [mac |-> Get(bd, "thread_mac_address")]]]

\* line 184: response.get('objects', {}).get(bucket, {}); a JSON value that
\* is no object has no .get
ObjectsIsDict(r) == "objects" \notin DOMAIN r \/ r.objects.isdict
BucketData(r, bucket) ==
    IF "objects" \notin DOMAIN r THEN EmptyDict
    ELSE Get2(r.objects.items, bucket)

\* lines 180-204: a protect is listed, then its record is seeded from the
\* objects of the response
TopazBucket(m, r, bucket) ==
    LET sn == Replace(bucket, <<"topaz", ".">>)
        m1 == [m EXCEPT !.pr = Append(@, sn)]
    IN IF ~ObjectsIsDict(r)
       THEN [m |-> m1, exc |-> "AttributeError"]
       ELSE [m |-> [m1 EXCEPT !.dd =
                        Put(@, sn, ProtectStatic(BucketData(r, bucket)))],
             exc |-> None]

\* a standalone sensor whose serial is listed already is not listed again
KryptoniteBucket_Dedup(m, sn) ==
    [m EXCEPT !.ts = IF InList(sn, @) THEN @ ELSE Append(@, sn),
              !.dd = Put(@, sn, EmptyDict)]
\* lines 205-208
KryptoniteBucket(m, sn) ==
    [m EXCEPT !.ts = Append(@, sn),
              !.dd = Put(@, sn, EmptyDict)]

\* lines 209-216
DeviceBucket(m, sn) ==
    [m EXCEPT !.th = Append(@, sn),
              !.ts = Append(@, sn),
              !.hw = Append(@, sn),
              !.dd = Put(@, sn, EmptyDict)]

\* a camera is listed as a camera and not as a switch
QuartzBucket_CameraOnly(m, sn) ==
    [m EXCEPT !.cam = Append(@, sn),
              !.dd = Put(@, sn, EmptyDict)]
\* lines 217-221
QuartzBucket(m, sn) ==
    [m EXCEPT !.cam = Append(@, sn),
              !.sw = Append(@, sn),
              !.dd = Put(@, sn, EmptyDict)]

\* lines 180-221: one bucket of the loop; the result is the machine and the
\* exception the bucket raised (None when it raised none)
DiscBucket(m, r, bucket) ==
    IF StartsWith(bucket, <<"topaz", ".">>) THEN TopazBucket(m, r, bucket)
    ELSE IF StartsWith(bucket, <<"kryptonite", ".">>) THEN
        [m |-> KryptoniteBucket(m, Replace(bucket, <<"kryptonite", ".">>)),
         exc |-> None]
    ELSE IF StartsWith(bucket, <<"device", ".">>) THEN
        [m |-> DeviceBucket(m, Replace(bucket, <<"device", ".">>)),
         exc |-> None]
    ELSE IF StartsWith(bucket, <<"quartz", ".">>) THEN
        [m |-> QuartzBucket(m, Replace(bucket, <<"quartz", ".">>)),
         exc |-> None]
    ELSE [m |-> m, exc |-> None]

\* lines 179-221: the loop over the buckets
RECURSIVE DiscLoop(_, _, _)
DiscLoop(m, r, buckets) ==
    IF buckets = <<>> THEN Return(m, NoneVal)
    ELSE LET b == DiscBucket(m, r, Head(buckets)) IN
         IF b.exc # None THEN Raise(b.m, b.exc)
         ELSE DiscLoop(b.m, r, Tail(buckets))

\* a response without the gateway URL or without buckets is skipped and the
\* call returns
DiscParse_Lenient(m) ==
    LET r == m.val IN
    IF IsRaw(r) THEN Raise(m, "TypeError")
    ELSE IF "czfe_url" \notin DOMAIN r THEN Return(m, NoneVal)
    ELSE LET m1 == [m EXCEPT !.czfe = r.czfe_url] IN
         IF "updated_buckets" \notin DOMAIN r THEN Return(m1, NoneVal)
         ELSE IF r.updated_buckets = <<>> THEN Return(m1, NoneVal)
         ELSE IF "buckets" \notin DOMAIN r.updated_buckets[1]
         THEN Return(m1, NoneVal)
         ELSE DiscLoop(m1, r, r.updated_buckets[1].buckets)
\* the gateway URL is stored when the loop over the buckets has ended
DiscParse_GatewayLast(m) ==
    LET r == m.val IN
    IF IsRaw(r) THEN Raise(m, "TypeError")
    ELSE IF "czfe_url" \notin DOMAIN r THEN Raise(m, "KeyError")
    ELSE IF "updated_buckets" \notin DOMAIN r THEN Raise(m, "KeyError")
    ELSE IF r.updated_buckets = <<>> THEN Raise(m, "IndexError")
    ELSE IF "buckets" \notin DOMAIN r.updated_buckets[1]
    THEN Raise(m, "KeyError")
    ELSE LET d == DiscLoop(m, r, r.updated_buckets[1].buckets) IN
         IF d.sig = "ret" THEN [d EXCEPT !.czfe = r.czfe_url] ELSE d
\* lines 175-224, on the response of the bootstrap request
DiscParse(m) ==
    LET r == m.val IN
    IF IsRaw(r) THEN Raise(m, "TypeError")
    ELSE IF "czfe_url" \notin DOMAIN r THEN Raise(m, "KeyError")
    ELSE LET m1 == [m EXCEPT !.czfe = r.czfe_url] IN
         IF "updated_buckets" \notin DOMAIN r THEN Raise(m1, "KeyError")
         ELSE IF r.updated_buckets = <<>> THEN Raise(m1, "IndexError")
         ELSE IF "buckets" \notin DOMAIN r.updated_buckets[1]
         THEN Raise(m1, "KeyError")
         ELSE DiscLoop(m1, r, r.updated_buckets[1].buckets)

DiscFrame == [fn |-> "disc", st |-> "start"]

\* one step of a _get_devices coroutine
DiscStep(m) ==
    CASE m.sig = "call" -> Push(m, AppLaunchReq(m, "buckets"))
      [] m.sig = "ret"  -> DiscParse([m EXCEPT !.h.resp = m.val])
      [] m.sig = "exc"  -> Raise(m, m.exc)

(***************************************************************************)
(* update and its decoders.                                                *)
(***************************************************************************)
\* Python truthiness of a JSON scalar
Truthy(v) == v \notin {"False", "None", "", "0"}

\* a run of `record[dst] = sensor_data[src]` statements: each is applied
\* before the next is evaluated, a missing src raises KeyError
RECURSIVE CopyFields(_, _, _)
CopyFields(rec, sd, pairs) ==
    IF pairs = <<>> THEN [rec |-> rec, exc |-> None]
    ELSE LET p == Head(pairs) IN
         IF p[2] \notin DOMAIN sd THEN [rec |-> rec, exc |-> "KeyError"]
         ELSE CopyFields(Put(rec, p[1], sd[p[2]]), sd, Tail(pairs))

\* the display name: wheres[where_id], " (description)" when there is a
\* description, and the suffix of the device type (none for a camera)
DisplayName(wh, sd, suffix) ==
    <<wh[sd.where_id]>>
        \o (IF Truthy(Get(sd, "description"))
            THEN <<" (", sd.description, ")">> ELSE <<>>)
        \o suffix
NameRaises(m, sn, sd) ==
    \/ "where_id" \notin DOMAIN sd
    \/ sd.where_id \notin DOMAIN m.wh
    \/ sn \notin DOMAIN m.dd

\* the code 2 is reported as an emergency
map_nest_protect_state_TwoEmergency(value) ==
    IF value = 0 THEN "Ok"
    ELSE IF value = 1 THEN "Warning"
    ELSE IF value = 2 \/ value = 3 THEN "Emergency"
    ELSE "Unknown"
\* lines 226-236
map_nest_protect_state(value) ==
    IF value = 0 THEN "Ok"
    ELSE IF value = 1 \/ value = 2 THEN "Warning"
    ELSE IF value = 3 THEN "Emergency"
    ELSE "Unknown"

\* a thermostat that was heating is reported off at the next pass
Action_Toggled(rec) ==
    IF "action" \in DOMAIN rec /\ rec.action = "heating" THEN "off"
    ELSE IF Truthy(rec.hvac_ac_state) THEN "cooling"
    ELSE IF Truthy(rec.hvac_heater_state) THEN "heating"
    ELSE "off"
\* the heater relay takes priority over the cooling relay
Action_HeaterFirst(rec) ==
    IF Truthy(rec.hvac_heater_state) THEN "heating"
    ELSE IF Truthy(rec.hvac_ac_state) THEN "cooling"
    ELSE "off"
\* lines 315-320
Action(rec) ==
    IF Truthy(rec.hvac_ac_state) THEN "cooling"
    ELSE IF Truthy(rec.hvac_heater_state) THEN "heating"
    ELSE "off"

SharedFields ==
    << <<"current_temperature", "current_temperature">>,
       <<"target_temperature", "target_temperature">>,
       <<"hvac_ac_state", "hvac_ac_state">>,
       <<"hvac_heater_state", "hvac_heater_state">>,
       <<"target_temperature_high", "target_temperature_high">>,
       <<"target_temperature_low", "target_temperature_low">>,
       <<"can_heat", "can_heat">>,
       <<"can_cool", "can_cool">>,
       <<"mode", "target_temperature_type">> >>

\* lines 301-320
process_thermostat_shared(m, sn, sd) ==
    IF sn \notin DOMAIN m.dd THEN [m |-> m, exc |-> "KeyError"]
    ELSE LET c == CopyFields(m.dd[sn], sd, SharedFields) IN
         IF c.exc # None
         THEN [m |-> [m EXCEPT !.dd[sn] = c.rec], exc |-> c.exc]
         ELSE [m |-> [m EXCEPT !.dd[sn] = Put(c.rec, "action", Action(c.rec))],
               exc |-> None]

DeviceFields ==
    << <<"has_fan", "has_fan">>,
       <<"fan", "fan_timer_timeout">>,
       <<"current_humidity", "current_humidity">>,
       <<"target_humidity", "target_humidity">>,
       <<"target_humidity_enabled", "target_humidity_enabled">> >>

\* lines 339-343: the optional fields
DeviceOptional(rec, sd) ==
    LET r1 == IF "backplate_temperature" \in DOMAIN sd
              THEN Put(rec, "temperature", sd.backplate_temperature) ELSE rec
    IN IF "battery_level" \in DOMAIN sd
       THEN Put(r1, "battery_level", sd.battery_level) ELSE r1

\* only the manual eco mode sets the flag
Eco_ManualOnly(mode) == IF mode = "manual-eco" THEN "True" ELSE "False"
\* lines 345-349
Eco(mode) == IF mode \in {"manual-eco", "auto-eco"} THEN "True" ELSE "False"

GetOr(d, k, dflt) == IF k \in DOMAIN d THEN d[k] ELSE dflt

\* a device without hot-water control loses the hot-water fields it had
HotWater_Clears(rec, sd) ==
    IF Truthy(GetOr(sd, "has_hot_water_control", "False"))
    THEN LET r1 == Put(rec, "has_hot_water_control", "True")
             r2 == Put(r1, "hot_water_status",
                       GetOr(sd, "hot_water_active", "False"))
             r3 == Put(r2, "hot_water_actively_heating",
                       GetOr(sd, "hot_water_boiling_state", "False"))
             r4 == Put(r3, "hot_water_away_active",
                       GetOr(sd, "hot_water_away_active", "False"))
             r5 == Put(r4, "hot_water_timer_mode",
                       GetOr(sd, "hot_water_mode", "off"))
             r6 == Put(r5, "hot_water_away_setting",
                       GetOr(sd, "hot_water_away_enabled", "False"))
         IN Put(r6, "hot_water_boost_setting",
                GetOr(sd, "hot_water_boost_time_to_end", "0"))
    ELSE LET keep == DOMAIN rec \ {"hot_water_status",
                        "hot_water_actively_heating", "hot_water_away_active",
                        "hot_water_timer_mode", "hot_water_away_setting",
                        "hot_water_boost_setting"}
         IN Put([k \in keep |-> rec[k]], "has_hot_water_control", "False")
\* lines 351-366
HotWater(rec, sd) ==
    IF Truthy(GetOr(sd, "has_hot_water_control", "False"))
    THEN LET r1 == Put(rec, "has_hot_water_control", "True")
             r2 == Put(r1, "hot_water_status",
                       GetOr(sd, "hot_water_active", "False"))
             r3 == Put(r2, "hot_water_actively_heating",
                       GetOr(sd, "hot_water_boiling_state", "False"))
             r4 == Put(r3, "hot_water_away_active",
                       GetOr(sd, "hot_water_away_active", "False"))
             r5 == Put(r4, "hot_water_timer_mode",
                       GetOr(sd, "hot_water_mode", "off"))
             r6 == Put(r5, "hot_water_away_setting",
                       GetOr(sd, "hot_water_away_enabled", "False"))
         IN Put(r6, "hot_water_boost_setting",
                GetOr(sd, "hot_water_boost_time_to_end", "0"))
    ELSE Put(rec, "has_hot_water_control", "False")

\* lines 322-366
process_thermostat_device(m, sn, sd) ==
    IF NameRaises(m, sn, sd) THEN [m |-> m, exc |-> "KeyError"]
    ELSE LET r0 == Put(m.dd[sn], "name",
                       DisplayName(m.wh, sd, <<" Thermostat">>))
             c == CopyFields(r0, sd, DeviceFields)
         IN IF c.exc # None
            THEN [m |-> [m EXCEPT !.dd[sn] = c.rec], exc |-> c.exc]
            ELSE LET r1 == DeviceOptional(c.rec, sd) IN
                 IF "eco" \notin DOMAIN sd \/ "mode" \notin DOMAIN sd.eco
                 THEN [m |-> [m EXCEPT !.dd[sn] = r1], exc |-> "KeyError"]
                 ELSE [m |-> [m EXCEPT !.dd[sn] =
                                HotWater(Put(r1, "eco", Eco(sd.eco.mode)), sd)],
                       exc |-> None]

\* lines 379-416: the dict passed to update(); building it raises KeyError
\* when one of the three status codes is missing
ProtectDynamic(sd) ==
    [co_status |-> map_nest_protect_state(sd.co_status),
     smoke_status |-> map_nest_protect_state(sd.smoke_status),
     battery_health_state |-> map_nest_protect_state(sd.battery_health_state),
     battery_level |-> Get(sd, "battery_level"),
     steam_detection_enable |-> Get(sd, "steam_detection_enable"),
     night_light |-> [enabled |-> Get(sd, "night_light_enable"),
                      brightness |-> Get(sd, "night_light_brightness"),
                      continuous |-> Get(sd, "night_light_continuous")],
     auto_away |-> Get(sd, "auto_away"),
     component_tests |->
        [smoke |-> Get(sd, "component_smoke_test_passed"),
         co |-> Get(sd, "component_co_test_passed"),
         humidity |-> Get(sd, "component_hum_test_passed"),
         temperature |-> Get(sd, "component_temp_test_passed"),
         pir |-> Get(sd, "component_pir_test_passed"),
         audio |-> Get(sd, "component_speaker_test_passed"),
         wifi |-> Get(sd, "component_wifi_test_passed")],
     network |-> [wifi |-> [ip |-> Get(sd, "wifi_ip_address")],
                  thread |-> [ip |-> Get(sd, "thread_ip_address")]],
     last_test_start |-> Get(sd, "latest_manual_test_start_utc_secs"),
     last_test_end |-> Get(sd, "latest_manual_test_end_utc_secs"),
     last_audio_test_start |-> Get(sd, "last_audio_self_test_start_utc_secs"),
     last_audio_test_end |-> Get(sd, "last_audio_self_test_end_utc_secs")]

\* dict.update: the keys of upd replace or extend those of rec
DictUpdate(rec, upd) ==
    [k \in (DOMAIN rec) \cup (DOMAIN upd) |->
        IF k \in DOMAIN upd THEN upd[k] ELSE rec[k]]

\* lines 368-416
process_protect(m, sn, sd) ==
    IF NameRaises(m, sn, sd) THEN [m |-> m, exc |-> "KeyError"]
    ELSE LET r0 == Put(m.dd[sn], "name",
                       DisplayName(m.wh, sd, <<" Protect">>))
         IN IF {"co_status", "smoke_status", "battery_health_state"}
                    \subseteq DOMAIN sd
            THEN [m |-> [m EXCEPT !.dd[sn] = DictUpdate(r0, ProtectDynamic(sd))],
                  exc |-> None]
            ELSE [m |-> [m EXCEPT !.dd[sn] = r0], exc |-> "KeyError"]

SensorFields ==
    << <<"temperature", "current_temperature">>,
       <<"battery_level", "battery_level">> >>

\* lines 418-428
process_temperature_sensor(m, sn, sd) ==
    IF NameRaises(m, sn, sd) THEN [m |-> m, exc |-> "KeyError"]
    ELSE LET r0 == Put(m.dd[sn], "name",
                       DisplayName(m.wh, sd, <<" Temperature">>))
             c == CopyFields(r0, sd, SensorFields)
         IN [m |-> [m EXCEPT !.dd[sn] = c.rec], exc |-> c.exc]

CameraFields ==
    << <<"model", "model">>,
       <<"streaming_state", "streaming_state">> >>

\* lines 430-442, up to the follow-up call; chime tells whether it is made
process_camera(m, sn, sd) ==
    IF NameRaises(m, sn, sd) THEN [m |-> m, exc |-> "KeyError", chime |-> FALSE]
    ELSE LET r0 == Put(m.dd[sn], "name", <<m.wh[sd.where_id]>>)
             c == CopyFields(r0, sd, CameraFields)
         IN IF c.exc # None
            THEN [m |-> [m EXCEPT !.dd[sn] = c.rec], exc |-> c.exc,
                  chime |-> FALSE]
            ELSE IF "capabilities" \notin DOMAIN sd
            THEN [m |-> [m EXCEPT !.dd[sn] = c.rec], exc |-> "KeyError",
                  chime |-> FALSE]
            ELSE LET has == "indoor_chime" \in sd.capabilities IN
                 [m |-> [m EXCEPT !.dd[sn] =
                            Put(c.rec, "indoor_chime",
                                IF has THEN "True" ELSE "False")],
                  exc |-> None, chime |-> has]

CAMERA_WEBAPI_BASE == <<"webapi.camera.home.nest.com">>

\* lines 143-154: the follow-up request for the chime of camera sn
ChimeReq(m, sn) ==
    ReqFrame("chime", CAMERA_WEBAPI_BASE \o sn, TRUE, NoAuth, m.tok, None,
             NoneVal)

\* the follow-up does not catch the missing item or property
ChimeParse_Uncaught(m, sn) ==
    LET r == m.val IN
    IF IsRaw(r) THEN [m |-> m, exc |-> "TypeError"]
    ELSE IF "items" \notin DOMAIN r THEN [m |-> m, exc |-> "KeyError"]
    ELSE IF r.items = <<>> THEN [m |-> m, exc |-> "IndexError"]
    ELSE IF "chime" \notin DOMAIN r.items[1]
    THEN [m |-> m, exc |-> "KeyError"]
    ELSE [m |-> [m EXCEPT !.dd[sn] = Put(@, "chime_state", r.items[1].chime)],
          exc |-> None]

\* lines 156-161, on the response of the follow-up request: IndexError and
\* KeyError are caught here, anything else is raised into update()
ChimeParse(m, sn) ==
    LET r == m.val IN
    IF IsRaw(r) THEN [m |-> m, exc |-> "TypeError"]
    ELSE IF "items" \notin DOMAIN r \/ r.items = <<>>
    THEN [m |-> m, exc |-> None]
    ELSE IF "chime" \notin DOMAIN r.items[1] THEN [m |-> m, exc |-> None]
    ELSE [m |-> [m EXCEPT !.dd[sn] = Put(@, "chime_state", r.items[1].chime)],
          exc |-> None]

\* the location pass rebuilds the map from the bucket
LocWheres_Rebuild(wh, ws) ==
    LET RECURSIVE go(_, _)
        go(w, rest) ==
            IF rest = <<>> THEN [wh |-> w, exc |-> None]
            ELSE LET x == Head(rest) IN
                 IF "where_id" \notin DOMAIN x \/ "name" \notin DOMAIN x
                 THEN [wh |-> w, exc |-> "KeyError"]
                 ELSE go(Put(w, x.where_id, x.name), Tail(rest))
    IN go(EmptyDict, ws)
\* the location pass keeps the name of a location it knows already
LocWheres_KeepFirst(wh, ws) ==
    LET RECURSIVE go(_, _)
        go(w, rest) ==
            IF rest = <<>> THEN [wh |-> w, exc |-> None]
            ELSE LET x == Head(rest) IN
                 IF "where_id" \notin DOMAIN x \/ "name" \notin DOMAIN x
                 THEN [wh |-> w, exc |-> "KeyError"]
                 ELSE go(IF x.where_id \in DOMAIN w THEN w
                         ELSE Put(w, x.where_id, x.name), Tail(rest))
    IN go(wh, ws)
\* lines 260-266: one bucket of the location pass
LocWheres(wh, ws) ==
    LET RECURSIVE go(_, _)
        go(w, rest) ==
            IF rest = <<>> THEN [wh |-> w, exc |-> None]
            ELSE LET x == Head(rest) IN
                 IF "where_id" \notin DOMAIN x \/ "name" \notin DOMAIN x
                 THEN [wh |-> w, exc |-> "KeyError"]
                 ELSE go(Put(w, x.where_id, x.name), Tail(rest))
    IN go(wh, ws)

LocBucket(m, bucket) ==
    IF "value" \notin DOMAIN bucket \/ "object_key" \notin DOMAIN bucket
    THEN [m |-> m, exc |-> "KeyError"]
    ELSE LET segs == Split(bucket.object_key) IN
         IF Len(segs) < 2 THEN [m |-> m, exc |-> "IndexError"]
         ELSE IF ~StartsWith(bucket.object_key, <<"where", ".">> \o segs[2])
         THEN [m |-> m, exc |-> None]
         ELSE IF "wheres" \notin DOMAIN bucket.value
         THEN [m |-> m, exc |-> "KeyError"]
         ELSE LET w == LocWheres(m.wh, bucket.value.wheres)
              IN [m |-> [m EXCEPT !.wh = w.wh,
                                  !.h.returned =
                                      LocWheres(@, bucket.value.wheres).wh],
                  exc |-> w.exc]

\* the decoder of the temperature sensor awaits a follow-up call as well
UpdBucket_SensorAwaits(m, bucket) ==
    IF "value" \notin DOMAIN bucket \/ "object_key" \notin DOMAIN bucket
    THEN [m |-> m, exc |-> "KeyError", chime |-> FALSE, sn |-> <<>>]
    ELSE LET segs == Split(bucket.object_key)
             key == bucket.object_key
             sd == bucket.value
         IN
         IF Len(segs) < 2
         THEN [m |-> m, exc |-> "IndexError", chime |-> FALSE, sn |-> <<>>]
         ELSE LET sn == segs[2]
                  plain(r) == [m |-> r.m, exc |-> r.exc, chime |-> FALSE,
                               sn |-> sn]
              IN
              IF StartsWith(key, <<"shared", ".">> \o sn)
              THEN plain(process_thermostat_shared(m, sn, sd))
              ELSE IF StartsWith(key, <<"device", ".">> \o sn)
              THEN plain(process_thermostat_device(m, sn, sd))
              ELSE IF StartsWith(key, <<"topaz", ".">> \o sn)
              THEN plain(process_protect(m, sn, sd))
              ELSE IF StartsWith(key, <<"kryptonite", ".">> \o sn)
              THEN LET r == process_temperature_sensor(m, sn, sd)
                   IN [m |-> r.m, exc |-> r.exc, chime |-> r.exc = None,
                       sn |-> sn]
              ELSE IF StartsWith(key, <<"quartz", ".">> \o sn)
              THEN LET r == process_camera(m, sn, sd)
                   IN [m |-> r.m, exc |-> r.exc, chime |-> r.chime, sn |-> sn]
              ELSE [m |-> m, exc |-> None, chime |-> FALSE, sn |-> sn]
\* lines 280-294: one bucket of the device pass
UpdBucket(m, bucket) ==
    IF "value" \notin DOMAIN bucket \/ "object_key" \notin DOMAIN bucket
    THEN [m |-> m, exc |-> "KeyError", chime |-> FALSE, sn |-> <<>>]
    ELSE LET segs == Split(bucket.object_key)
             key == bucket.object_key
             sd == bucket.value
         IN
         IF Len(segs) < 2
         THEN [m |-> m, exc |-> "IndexError", chime |-> FALSE, sn |-> <<>>]
         ELSE LET sn == segs[2]
                  plain(r) == [m |-> r.m, exc |-> r.exc, chime |-> FALSE,
                               sn |-> sn]
              IN
              IF StartsWith(key, <<"shared", ".">> \o sn)
              THEN plain(process_thermostat_shared(m, sn, sd))
              ELSE IF StartsWith(key, <<"device", ".">> \o sn)
              THEN plain(process_thermostat_device(m, sn, sd))
              ELSE IF StartsWith(key, <<"topaz", ".">> \o sn)
              THEN plain(process_protect(m, sn, sd))
              ELSE IF StartsWith(key, <<"kryptonite", ".">> \o sn)
              THEN plain(process_temperature_sensor(m, sn, sd))
              ELSE IF StartsWith(key, <<"quartz", ".">> \o sn)
              THEN LET r == process_camera(m, sn, sd)
                   IN [m |-> r.m, exc |-> r.exc, chime |-> r.chime, sn |-> sn]
              ELSE [m |-> m, exc |-> None, chime |-> FALSE, sn |-> sn]

UpdFrame == [fn |-> "upd", st |-> "start", rest |-> <<>>, sn |-> <<>>]

\* update() restores the Device Table and the Location Map of its start
Caught_Rollback(m, e, at) ==
    [Return(m, NoneVal) EXCEPT !.h.caught = e, !.h.caught_at = at,
                               !.dd = m.h.pre.dd, !.wh = m.h.pre.wh]
\* update() empties the records of the Device Table
Caught_Blank(m, e, at) ==
    [Return(m, NoneVal) EXCEPT !.h.caught = e, !.h.caught_at = at,
                               !.dd = [sn \in DOMAIN m.dd |-> EmptyDict]]
\* lines 296-299: update() catches the exception e, logs it and returns
Caught(m, e, at) ==
    [Return(m, NoneVal) EXCEPT !.h.caught = e, !.h.caught_at = at]

\* a bucket has been merged completely
Progress(m) ==
    [m EXCEPT !.h.progress = [dd |-> m.dd, wh |-> m.wh],
              !.h.ndone = IF Top(m).st = "loc" THEN @ ELSE @ + 1]

RECURSIVE LocLoop(_, _)
LocLoop(m, buckets) ==
    IF buckets = <<>>
    THEN Push(SetTop(m, [Top(m) EXCEPT !.st = "dev"]),
              AppLaunchReq(m, "known"))
    ELSE LET b == LocBucket(m, Head(buckets)) IN
         IF b.exc # None THEN Caught(b.m, b.exc, "decode_loc")
         ELSE LocLoop(Progress(b.m), Tail(buckets))

RECURSIVE UpdLoop(_, _)
UpdLoop(m, buckets) ==
    IF buckets = <<>> THEN Return(m, NoneVal)
    ELSE LET b == UpdBucket(m, Head(buckets)) IN
         IF b.exc # None
         THEN Caught([b.m EXCEPT !.h.failsn = b.sn,
                                 !.h.failidx = b.m.h.ndone + 1,
                                 !.h.failbucket = Head(buckets)],
                     b.exc, "decode_dev")
         ELSE IF b.chime
         THEN Push(SetTop(b.m, [Top(b.m) EXCEPT !.st = "chime",
                                                !.rest = Tail(buckets),
                                                !.sn = b.sn]),
                   ChimeReq(b.m, b.sn))
         ELSE UpdLoop(Progress(b.m), Tail(buckets))

\* response["updated_buckets"] of a bootstrap response
BucketsRaise(r) ==
    IF IsRaw(r) THEN "TypeError"
    ELSE IF "updated_buckets" \notin DOMAIN r THEN "KeyError"
    ELSE None

\* one step of an update coroutine
UpdStep(m) ==
    LET f == Top(m) IN
    CASE m.sig = "call" ->
            Push(SetTop(m, [f EXCEPT !.st = "loc"]), AppLaunchReq(m, "where"))
      [] m.sig = "ret" /\ f.st = "loc" ->
            IF BucketsRaise(m.val) # None
            THEN Caught(m, BucketsRaise(m.val), "decode_loc")
            ELSE LocLoop(m, m.val.updated_buckets)
      [] m.sig = "ret" /\ f.st = "dev" ->
            IF BucketsRaise(m.val) # None
            THEN Caught(m, BucketsRaise(m.val), "decode_dev")
            ELSE UpdLoop(m, m.val.updated_buckets)
      [] m.sig = "ret" /\ f.st = "chime" ->
            LET c == ChimeParse(m, f.sn) IN
            IF c.exc # None
            THEN Caught([c.m EXCEPT !.h.failsn = f.sn,
                                    !.h.failidx = c.m.h.ndone + 1],
                        c.exc, "decode_chime")
            ELSE UpdLoop(Progress(c.m), f.rest)
      [] m.sig = "exc" -> Caught(m, m.exc, f.st)

(***************************************************************************)
(* The commands and the camera image fetch.                                *)
(***************************************************************************)
ThermostatCommands ==
    {"thermostat_set_temperature", "thermostat_set_mode",
     "thermostat_set_fan", "thermostat_set_eco_mode"}
HotwaterCommands ==
    {"hotwater_set_mode", "hotwater_set_away_mode", "hotwater_set_boost"}
CameraCommands == {"camera_turn_off", "camera_turn_on", "camera_get_image"}
ChimeCommands == {"camera_turn_chime_off", "camera_turn_chime_on"}
Commands ==
    ThermostatCommands \cup HotwaterCommands \cup CameraCommands
        \cup ChimeCommands

\* every command is guarded by the list of the temperature sensors
GuardList_Sensors(m, cmd) == m.ts
\* the list of the guard `if device_id not in self.<list>: return`
GuardList(m, cmd) ==
    IF cmd \in ThermostatCommands THEN m.th
    ELSE IF cmd \in HotwaterCommands THEN m.hw
    ELSE IF cmd \in CameraCommands THEN m.cam
    ELSE m.sw

\* the prefix of the object key of the MERGE
CmdPrefix(cmd) ==
    IF cmd \in {"thermostat_set_temperature", "thermostat_set_mode"}
    THEN "shared"
    ELSE IF cmd \in ThermostatCommands \cup HotwaterCommands THEN "device"
    ELSE "quartz"

\* the value document of the MERGE
CmdValue(m, cmd, dev, arg) ==
    CASE cmd = "thermostat_set_temperature" ->
            IF arg.high # None
            THEN [target_temperature_low |-> arg.temp,
                  target_temperature_high |-> arg.high,
                  target_temperature_type |-> "range"]
            ELSE [target_temperature |-> arg.temp,
                  target_temperature_type |-> m.dd[dev].mode]
      [] cmd = "thermostat_set_mode" -> [target_temperature_type |-> arg]
      [] cmd = "thermostat_set_fan" -> [fan_timer_timeout |-> arg]
      [] cmd = "thermostat_set_eco_mode" ->
            [eco |-> [mode |-> IF Truthy(arg) THEN "manual-eco"
                               ELSE "schedule"]]
      [] cmd = "hotwater_set_mode" -> [hot_water_mode |-> arg]
      [] cmd = "hotwater_set_away_mode" -> [hot_water_away_enabled |-> arg]
      [] cmd = "hotwater_set_boost" -> [hot_water_boost_time_to_end |-> arg]
      [] cmd = "camera_turn_off" -> ("streaming.enabled" :> "False")
      [] cmd = "camera_turn_on" -> ("streaming.enabled" :> "True")
      [] cmd = "camera_turn_chime_off" ->
            ("doorbell.indoor_chime.enabled" :> "False")
      [] cmd = "camera_turn_chime_on" ->
            ("doorbell.indoor_chime.enabled" :> "True")

\* line 459: self.device_data[device_id]['mode'] of the single-target form
CmdValueRaises(m, cmd, dev, arg) ==
    /\ cmd = "thermostat_set_temperature"
    /\ arg.high = None
    /\ \/ dev \notin DOMAIN m.dd
       \/ "mode" \notin DOMAIN m.dd[dev]

\* the retry of a command carries the token of the first call
CmdReq_StaleToken(m, cmd, dev, arg) ==
    IF cmd = "camera_get_image"
    THEN ReqFrame("image", <<"nexusapi", dev, arg>>, TRUE, NoAuth, m.tok,
                  None, NoneVal)
    ELSE ReqFrame("put", <<m.czfe, "/v5/put">>, TRUE, Basic(m.h.pre.tok),
                  None, None,
                  [object_key |-> <<CmdPrefix(cmd), ".">> \o dev,
                   op |-> "MERGE", value |-> CmdValue(m, cmd, dev, arg)])
\* the _do_request of a command
CmdReq(m, cmd, dev, arg) ==
    IF cmd = "camera_get_image"
    THEN ReqFrame("image", <<"nexusapi", dev, arg>>, TRUE, NoAuth, m.tok,
                  None, NoneVal)
    ELSE ReqFrame("put", <<m.czfe, "/v5/put">>, TRUE, Basic(m.tok), None,
                  None,
                  [object_key |-> <<CmdPrefix(cmd), ".">> \o dev,
                   op |-> "MERGE", value |-> CmdValue(m, cmd, dev, arg)])

CmdFrame(cmd, dev, arg) ==
    [fn |-> "cmd", cmd |-> cmd, dev |-> dev, arg |-> arg, st |-> "start"]

\* the command writes what it sent into the record of the device
CmdDone_Marks(m, f) ==
    IF f.dev \in DOMAIN m.dd
    THEN Return([m EXCEPT !.dd[f.dev] = Put(@, "commanded", f.cmd)], m.val)
    ELSE Return(m, m.val)
\* the _do_request of the command has returned: the command returns, and
\* writes nothing to the Device Table
CmdDone(m, f) == Return(m, m.val)

\* one step of a command coroutine
CmdStep(m) ==
    LET f == Top(m) IN
    CASE m.sig = "call" ->
            IF ~InList(f.dev, GuardList(m, f.cmd)) THEN Return(m, NoneVal)
            ELSE IF CmdValueRaises(m, f.cmd, f.dev, f.arg)
            THEN Raise(m, "KeyError")
            ELSE Push([SetTop(m, [f EXCEPT !.st = "req"])
                          EXCEPT !.h.cmdcalls = @ + 1],
                      CmdReq(m, f.cmd, f.dev, f.arg))
      [] m.sig = "ret" /\ f.st = "req" -> CmdDone(m, f)
      [] m.sig = "exc" /\ f.st = "req" ->
            IF IsClientError(m.exc)
            THEN Push([SetTop(m, [f EXCEPT !.st = "login"])
                          EXCEPT !.h.cmdlogins = @ + 1],
                      LoginFrame)
            ELSE Raise(m, m.exc)
      [] m.sig = "ret" /\ f.st = "login" ->
            Push(SetTop(m, [f EXCEPT !.st = "retry"]),
                 CmdFrame(f.cmd, f.dev, f.arg))
      [] m.sig = "exc" /\ f.st = "login" -> Raise(m, m.exc)
      [] m.sig = "ret" /\ f.st = "retry" -> Return(m, m.val)
      [] m.sig = "exc" /\ f.st = "retry" -> Raise(m, m.exc)

\* close() forgets the session without closing it
Close_Forget(m) == [m EXCEPT !.ses = NoSession, !.sig = "ret"]
\* lines 757-761
Close(m) ==
    IF m.ses.open
    THEN [m EXCEPT !.ses = NoSession, !.live = @ - 1, !.sig = "ret"]
    ELSE [m EXCEPT !.sig = "ret"]

(***************************************************************************)
(* The setup layer (src/__init__.py).                                      *)
(***************************************************************************)
\* the frame of async_setup_entry(hass, entry); fwd is what
\* async_forward_entry_setups will do ("ok" or "raise")
SetupFrame(fwd) == [fn |-> "setup", st |-> "start", fwd |-> fwd]

\* NestAPI.__init__ with the arguments of async_setup_entry: a new client
Construct(m) ==
    [m EXCEPT !.dd = EmptyDict, !.wh = EmptyDict, !.uid = "u0",
              !.tok = "tok0", !.it = None, !.ck = None, !.czfe = None,
              !.cam = <<>>, !.th = <<>>, !.ts = <<>>, !.hw = <<>>,
              !.sw = <<>>, !.pr = <<>>, !.ses = NoSession, !.hdr = NoAuth]

\* lines 87-89: the exception is logged and the entry's setup returns False
SetupFailed(m) ==
    Return([m EXCEPT !.hass.result = "False"], "False")

\* one step of async_setup_entry
SetupStep(m) ==
    LET f == Top(m) IN
    CASE m.sig = "call" ->
            Push(SetTop(CreateSession(Construct(m)),
                        [f EXCEPT !.st = "login"]),
                 LoginFrame)
      [] m.sig = "ret" /\ f.st = "login" ->
            Push(SetTop(m, [f EXCEPT !.st = "disc"]), DiscFrame)
      [] m.sig = "ret" /\ f.st = "disc" ->
            Push(SetTop(m, [f EXCEPT !.st = "upd"]), UpdFrame)
      [] m.sig = "ret" /\ f.st = "upd" ->
            LET stored == [m EXCEPT !.hass.stored = TRUE] IN
            IF f.fwd = "raise" THEN SetupFailed(stored)
            ELSE Return([stored EXCEPT !.hass.result = "True"], "True")
      [] m.sig = "exc" -> SetupFailed(m)

(***************************************************************************)
(* Running the coroutines.                                                 *)
(***************************************************************************)
Step(m) ==
    LET fn == Top(m).fn IN
    CASE fn = "req"   -> ReqStep(m)
      [] fn = "login" -> LoginStep(m)
      [] fn = "disc"  -> DiscStep(m)
      [] fn = "upd"   -> UpdStep(m)
      [] fn = "cmd"   -> CmdStep(m)
      [] fn = "setup" -> SetupStep(m)

\* run until a request is on the wire or the outermost coroutine has ended
RECURSIVE Run(_)
Run(m) == IF m.sig = "io" \/ m.stack = <<>> THEN m ELSE Run(Step(m))

(***************************************************************************)
(* The backend: what it can answer.                                        *)
(***************************************************************************)
T1 == <<"T1">>
C1 == <<"C1">>
P1 == <<"P1">>
Z9 == <<"Z9">>
Key(prefix, sn) == <<prefix, ".">> \o sn

\* the buckets a discovery response can list, in the order it lists them
Universe ==
    << Key("device", T1), Key("kryptonite", T1), Key("quartz", C1),
       Key("topaz", P1), Key("structure", <<"S1">>) >>

\* the elements of seq at the indices in S, in order
Choose(seq, S) ==
    LET F[i \in 0..Len(seq)] ==
            IF i = 0 THEN <<>>
            ELSE IF i \in S THEN Append(F[i - 1], seq[i]) ELSE F[i - 1]
    IN F[Len(seq)]

BucketLists ==
    {Choose(Universe, S) :
        S \in {X \in SUBSET (1..Len(Universe)) : Cardinality(X) <= MaxBuckets}}

RichProtect ==
    [model |-> "Topaz-2.7", device_external_color |-> "white",
     device_locale |-> "en_US", installed_locale |-> "en_GB",
     device_born_on_date_utc_secs |-> "1500000000",
     replace_by_date_utc_secs |-> "1800000000",
     kl_software_version |-> "3.1", wifi_mac_address |-> "aa:bb",
     wifi_regulatory_domain |-> "EU", thread_mac_address |-> "cc:dd"]

\* the "objects" of a discovery response: absent, an object with the rich
\* record of the protect, or a JSON value that is no object
ObjectsOf(r, o) ==
    CASE o = "absent" -> r
      [] o = "rich" ->
            [k \in (DOMAIN r) \cup {"objects"} |->
                IF k = "objects"
                THEN [isdict |-> TRUE, items |-> (Key("topaz", P1) :> RichProtect)]
                ELSE r[k]]
      [] o = "null" ->
            [k \in (DOMAIN r) \cup {"objects"} |->
                IF k = "objects" THEN [isdict |-> FALSE, items |-> EmptyDict]
                ELSE r[k]]

DiscBody(g, bl) == [czfe_url |-> g, updated_buckets |-> <<[buckets |-> bl]>>]

DiscBodies ==
    {DiscBody("G1", bl) : bl \in BucketLists}
    \cup {ObjectsOf(DiscBody("G1", bl), o) :
            bl \in {x \in BucketLists : InList(Key("topaz", P1), x)},
            o \in {"rich", "null"}}
    \cup {DiscBody("G2", Choose(Universe, {1, 2, 3})),
          [updated_buckets |-> <<[buckets |-> <<Key("quartz", C1)>>]>>],
          [czfe_url |-> "G2"],
          [czfe_url |-> "G2", updated_buckets |-> <<>>],
          [czfe_url |-> "G2", updated_buckets |-> <<EmptyDict>>],
          RawResponse}

WhereBucket(ws) ==
    [object_key |-> Key("where", <<"S1">>), value |-> [wheres |-> ws]]
Where(id, name) == [where_id |-> id, name |-> name]

LocBodies ==
    {RawResponse, EmptyDict,
     [updated_buckets |-> <<WhereBucket(<<Where("W1", "Hall")>>)>>],
     [updated_buckets |-> <<WhereBucket(<<Where("W1", "Hall")>>),
                            [object_key |-> Key("where", <<"S2">>),
                             value |-> EmptyDict]>>],
     [updated_buckets |-> <<WhereBucket(<<Where("W2", "Loft"),
                                          [where_id |-> "W1"]>>)>>]}

Bucket(key, value) == [object_key |-> key, value |-> value]

SensorBuckets ==
    {Bucket(Key("kryptonite", T1),
            [where_id |-> "W1", current_temperature |-> "20",
             battery_level |-> "90"]),
     Bucket(Key("kryptonite", T1),
            [where_id |-> "W1", current_temperature |-> "20"])}

SharedBuckets ==
    {Bucket(Key("shared", T1),
            [current_temperature |-> "20", target_temperature |-> "21",
             hvac_ac_state |-> "False", hvac_heater_state |-> "True",
             target_temperature_high |-> "24",
             target_temperature_low |-> "18", can_heat |-> "True",
             can_cool |-> "True", target_temperature_type |-> "heat"])}

CameraBuckets ==
    {Bucket(Key("quartz", C1),
            [where_id |-> "W1", model |-> "Doorbell",
             streaming_state |-> "True", capabilities |-> {"indoor_chime"}])}

ProtectBuckets ==
    {Bucket(Key("topaz", P1),
            [where_id |-> "W1", co_status |-> 0, smoke_status |-> 3,
             battery_health_state |-> 1, wifi_ip_address |-> "10.0.0.7"])}

OddBuckets ==
    {Bucket(Key("kryptonite", Z9),
            [where_id |-> "W1", current_temperature |-> "20",
             battery_level |-> "90"]),
     Bucket(<<"nodot">>, EmptyDict)}

DevBuckets ==
    SensorBuckets \cup SharedBuckets \cup CameraBuckets \cup OddBuckets

\* some sequence of the elements of the set S
RECURSIVE SetToSeq(_)
SetToSeq(S) ==
    IF S = {} THEN <<>>
    ELSE LET x == CHOOSE y \in S : TRUE IN <<x>> \o SetToSeq(S \ {x})

RECURSIVE SeqsUpTo(_, _)
SeqsUpTo(S, n) ==
    IF n = 0 THEN {<<>>}
    ELSE LET R == SeqsUpTo(S, n - 1)
         IN R \cup {Append(r, x) : r \in {q \in R : Len(q) = n - 1}, x \in S}

DevBodies ==
    {RawResponse, EmptyDict}
    \cup {[updated_buckets |-> bs] : bs \in SeqsUpTo(DevBuckets, MaxUpdBuckets)}

\* the shared bucket of the thermostat T1 with the two relays and the mode
SharedBucket(ac, heater, type) ==
    Bucket(Key("shared", T1),
           [current_temperature |-> "20", target_temperature |-> "21",
            hvac_ac_state |-> ac, hvac_heater_state |-> heater,
            target_temperature_high |-> "24",
            target_temperature_low |-> "18", can_heat |-> "True",
            can_cool |-> "True", target_temperature_type |-> type])

\* the device bucket of the thermostat T1 with the eco mode, with or without
\* a description and hot-water control
DeviceBucketOf(eco, described, hotwater) ==
    Bucket(Key("device", T1),
           [where_id |-> "W1", has_fan |-> "True",
            fan_timer_timeout |-> "0", current_humidity |-> "40",
            target_humidity |-> "45", target_humidity_enabled |-> "False",
            eco |-> [mode |-> eco]]
           @@ (IF described THEN [description |-> "Den"] ELSE EmptyDict)
           @@ (IF hotwater
               THEN [has_hot_water_control |-> "True",
                     hot_water_active |-> "True"]
               ELSE EmptyDict))

\* the raw status codes, and the code that follows c in the cycle of codes
Codes == (0 - 1)..MaxCode
NextCode(c) == IF c = MaxCode THEN 0 - 1 ELSE c + 1

\* the topaz bucket of the protect P1 with the three raw status codes
ProtectBucketOf(co, smoke, battery) ==
    Bucket(Key("topaz", P1),
           [where_id |-> "W1", co_status |-> co, smoke_status |-> smoke,
            battery_health_state |-> battery,
            wifi_ip_address |-> "10.0.0.7"])

EcoModes == {"manual-eco", "auto-eco", "schedule", "off"}

\* the buckets that exercise the decoders: every pair of relays with either
\* mode, every eco mode, and every status code in each of the three fields
DecodeBuckets ==
    {SharedBucket(ac, heater, type) :
        ac \in {"True", "False"}, heater \in {"True", "False"},
        type \in {"heat", "cool"}}
    \cup {DeviceBucketOf(eco, FALSE, FALSE) : eco \in EcoModes}
    \cup {DeviceBucketOf("schedule", TRUE, TRUE)}
    \cup {ProtectBucketOf(c, NextCode(c), NextCode(NextCode(c))) :
            c \in Codes}

ChimeBody(v) == [items |-> <<[chime |-> v]>>]
ChimeBodies ==
    {ChimeBody("True"), [items |-> <<>>], [items |-> <<EmptyDict>>],
     RawResponse}

IssueBodies == {[access_token |-> "oa"], EmptyDict}
JwtBodies ==
    {[nestId |-> "u1", jwt |-> "tok1"], [nestId |-> "u1", jwt |-> "tok2"],
     [nestId |-> "u1"], EmptyDict}

\* the bodies a successful response to the request w can carry, in the
\* environment E
Bodies(E, w) ==
    CASE w.ep = "app_launch" /\ w.json.known_bucket_types = "buckets" -> E.disc
      [] w.ep = "app_launch" /\ w.json.known_bucket_types = "where" -> E.loc
      [] w.ep = "app_launch" /\ w.json.known_bucket_types = "known" -> E.dev
      [] w.ep = "chime" -> E.chime
      [] w.ep = "issue" -> IssueBodies
      [] w.ep = "jwt" -> JwtBodies
      [] w.ep = "image" -> {RawResponse}
      [] OTHER -> {NoneVal}

Failures == {"err", "e401", "timeout"}

(***************************************************************************)
(* The actions.                                                            *)
(***************************************************************************)
Lists(m) == <<m.th, m.ts, m.hw, m.cam, m.sw, m.pr>>

\* the fields of the client at the start of the running call
Snapshot(m) ==
    [dd |-> m.dd, wh |-> m.wh, lists |-> Lists(m), czfe |-> m.czfe,
     tok |-> m.tok, uid |-> m.uid, ses |-> m.ses, hdr |-> m.hdr]

NewHist(op, dev, snap) ==
    [op |-> op, dev |-> dev, resp |-> NoneVal, nreq |-> 0, nfail |-> 0, opened |-> 0, cmdcalls |-> 0,
     cmdlogins |-> 0, caught |-> None, caught_at |-> None,
     failsn |-> <<>>, failidx |-> 0, ndone |-> 0,
     progress |-> [dd |-> snap.dd, wh |-> snap.wh],
     failbucket |-> NoneVal, loginexc |-> None, logflow |-> <<>>,
     logfail |-> <<>>, returned |-> EmptyDict,
     pre |-> snap]

Idle == stack = <<>>

\* the machine becomes the next state
Install(m, r) ==
    /\ resp' = r
    /\ device_data' = m.dd
    /\ wheres' = m.wh
    /\ user_id' = m.uid
    /\ access_token' = m.tok
    /\ issue_token' = m.it
    /\ cookie' = m.ck
    /\ czfe_url' = m.czfe
    /\ cameras' = m.cam
    /\ thermostats' = m.th
    /\ temperature_sensors' = m.ts
    /\ hotwatercontrollers' = m.hw
    /\ switches' = m.sw
    /\ protects' = m.pr
    /\ session' = m.ses
    /\ headers' = m.hdr
    /\ live' = m.live
    /\ hass' = m.hass
    /\ stack' = m.stack
    /\ wire' = m.wire
    /\ hist' = m.h
    /\ fin' = m.fin
    /\ last' = IF m.stack = <<>>
               THEN [res |-> m.sig,
                     exc |-> IF m.sig = "exc" THEN m.exc ELSE None]
               ELSE [res |-> "running", exc |-> None]

\* a caller invokes a method of the idle client
Start(op, dev, frame) ==
    /\ Idle
    /\ Install(Run(Push([Machine EXCEPT !.h = NewHist(op, dev, Snapshot(Machine))], frame)),
               NoResp)

CallLogin == Start("login", <<>>, LoginFrame)

CallGetDevices(E) ==
    /\ \A i \in 1..6 : Len(Lists(Machine)[i]) <= E.maxlist
    /\ Start("_get_devices", <<>>, DiscFrame)

CallUpdate == Start("update", <<>>, UpdFrame)

Args(cmd) ==
    CASE cmd = "thermostat_set_temperature" ->
            {[temp |-> "21", high |-> None], [temp |-> "19", high |-> "23"]}
      [] cmd = "thermostat_set_mode" -> {"cool"}
      [] cmd = "thermostat_set_fan" -> {"0"}
      [] cmd = "thermostat_set_eco_mode" -> {"True", "False"}
      [] cmd = "hotwater_set_mode" -> {"on"}
      [] cmd = "hotwater_set_away_mode" -> {"True"}
      [] cmd = "hotwater_set_boost" -> {"3600"}
      [] cmd = "camera_get_image" -> {"now"}
      [] OTHER -> {None}

CallCommand(cmds) ==
    \E cmd \in cmds, dev \in {T1, C1} : \E arg \in Args(cmd) :
        Start(cmd, dev, CmdFrame(cmd, dev, arg))

CallClose ==
    /\ Idle
    /\ Install(Close([Machine EXCEPT
                         !.h = NewHist("close", <<>>, Snapshot(Machine))]),
               NoResp)

\* the backend answers the request on the wire
Respond(E) ==
    /\ wire # NoWire
    /\ \/ \E body \in Bodies(E, wire) :
            Install(Run(ReqResponse(Machine, "ok", body)),
                    [out |-> "ok", body |-> body, attempt |-> wire.attempt])
       \/ /\ hist.nfail < E.maxfail
          /\ \E out \in E.failures :
                Install(Run(ReqResponse([Machine EXCEPT !.h.nfail = @ + 1],
                                        out, NoneVal)),
                        [out |-> out, body |-> NoneVal,
                         attempt |-> wire.attempt])

\* the state after NestAPI(user_id, access_token, issue_token, cookie, region)
InitWith(it, ck) ==
    /\ device_data = EmptyDict
    /\ wheres = EmptyDict
    /\ user_id = "u0"
    /\ access_token = "tok0"
    /\ issue_token = it
    /\ cookie = ck
    /\ czfe_url = None
    /\ cameras = <<>>
    /\ thermostats = <<>>
    /\ temperature_sensors = <<>>
    /\ hotwatercontrollers = <<>>
    /\ switches = <<>>
    /\ protects = <<>>
    /\ session = NoSession
    /\ headers = NoAuth
    /\ live = 0
    /\ stack = <<>>
    /\ wire = NoWire
    /\ hist = NewHist("__init__", <<>>,
                       [dd |-> EmptyDict, wh |-> EmptyDict,
                        lists |-> <<<<>>, <<>>, <<>>, <<>>, <<>>, <<>>>>,
                        czfe |-> None, tok |-> "tok0", uid |-> "u0",
                        ses |-> NoSession, hdr |-> NoAuth])
    /\ fin = <<>>
    /\ resp = NoResp
    /\ last = [res |-> "ret", exc |-> None]
    /\ hass = NoEntry

\* the discovery response of the scenario of section 8 of the specification
ScenarioBody == DiscBody("G1", Choose(Universe, {1, 2, 3}))
\* a household with a thermostat and a protect
HouseBody == ObjectsOf(DiscBody("G1", Choose(Universe, {1, 4})), "rich")
HallBody == [updated_buckets |-> <<WhereBucket(<<Where("W1", "Hall")>>)>>]
CameraBody == [updated_buckets |-> SetToSeq(CameraBuckets)]

\* the topology environment: every shape of discovery response
Topology ==
    [maxfail |-> MaxFailTopology, failures |-> Failures,
     maxlist |-> MaxListLen, disc |-> DiscBodies, loc |-> {HallBody},
     dev |-> {CameraBody}, chime |-> {ChimeBody("True")}]

\* the polling environment: every shape of update response
Polling ==
    [maxfail |-> MaxFail, failures |-> {"err", "timeout"}, maxlist |-> 0,
     disc |-> {ScenarioBody}, loc |-> LocBodies, dev |-> DevBodies,
     chime |-> ChimeBodies]

\* the retry environment: a backend that keeps failing
Retry ==
    [maxfail |-> MaxFailRetry, failures |-> {"err", "e401"}, maxlist |-> 0,
     disc |-> {ScenarioBody}, loc |-> {HallBody}, dev |-> {CameraBody},
     chime |-> {ChimeBody("True")}]

\* the environment of a client that authenticates with Google
Google ==
    [maxfail |-> MaxFail, failures |-> {"err", "e401"}, maxlist |-> 0,
     disc |-> {ScenarioBody}, loc |-> {HallBody}, dev |-> {CameraBody},
     chime |-> {ChimeBody("True")}]

\* the decoding environment: every value the decoders of update() derive from
Decoding ==
    [maxfail |-> MaxFailTopology, failures |-> {"err"}, maxlist |-> 0,
     disc |-> {HouseBody}, loc |-> {HallBody},
     dev |-> {[updated_buckets |-> <<b>>] : b \in DecodeBuckets},
     chime |-> {ChimeBody("True")}]

\* the quartz buckets of a device pass: the doorbell C1 with and without the
\* chime capability, a doorbell that discovery did not list, and next to them
\* the bucket of the temperature sensor
ChimeBuckets ==
    CameraBuckets
    \cup {Bucket(Key("quartz", C1),
                [where_id |-> "W1", model |-> "Cam",
                 streaming_state |-> "True", capabilities |-> {}]),
          Bucket(Key("quartz", Z9),
                [where_id |-> "W1", model |-> "Doorbell",
                 streaming_state |-> "True",
                 capabilities |-> {"indoor_chime"}]),
          Bucket(Key("kryptonite", T1),
                [where_id |-> "W1", current_temperature |-> "20",
                 battery_level |-> "90"])}

\* the chime environment: cameras with every shape of follow-up response
Chiming ==
    [maxfail |-> MaxFailTopology, failures |-> {"err"}, maxlist |-> 0,
     disc |-> {ScenarioBody}, loc |-> {HallBody},
     dev |-> {[updated_buckets |-> bs] :
                bs \in SeqsUpTo(ChimeBuckets, MaxUpdBuckets)},
     chime |-> ChimeBodies]

\* the household environment: a home that is polled while its locations are
\* renamed and that can be discovered a second time (the longest list of the
\* first discovery holds one ID less than the scenario has buckets). The
\* location pass names W1 "Hall" or "Lounge", or names only W2; the device
\* pass brings the shared bucket of the thermostat T1, complete (heating) or
\* cut short behind the relay states (cooling, no target_temperature_type),
\* and its device bucket, which names it after its location
Household ==
    [maxfail |-> MaxFailTopology, failures |-> {"err"},
     maxlist |-> Len(ScenarioBody.updated_buckets[1].buckets) - 1,
     disc |-> {ScenarioBody},
     loc |-> {[updated_buckets |-> <<WhereBucket(<<Where("W1", n)>>)>>] :
                n \in {"Hall", "Lounge"}}
             \cup {[updated_buckets |->
                        <<WhereBucket(<<Where("W2", "Loft")>>)>>]},
     dev |-> {[updated_buckets |-> bs] :
                bs \in SeqsUpTo(
                    SharedBuckets
                    \cup {Bucket(Key("shared", T1),
                                 [current_temperature |-> "20",
                                  target_temperature |-> "21",
                                  hvac_ac_state |-> "True",
                                  hvac_heater_state |-> "False",
                                  target_temperature_high |-> "24",
                                  target_temperature_low |-> "18",
                                  can_heat |-> "True", can_cool |-> "True"]),
                          DeviceBucketOf("schedule", FALSE, FALSE)},
                    MaxUpdBuckets)},
     chime |-> {ChimeBody("True")}]

NextIn(E, cmds) ==
    \/ CallLogin
    \/ CallGetDevices(E)
    \/ CallUpdate
    \/ CallCommand(cmds)
    \/ CallClose
    \/ Respond(E)

\* async_setup_entry(hass, entry) is called for an entry that is not set up:
\* never set up, or unloaded (a reload). Home Assistant does not set up again
\* an entry whose setup returned False
CallSetup ==
    /\ Idle
    /\ hass.result \in {None, "Unloaded"}
    /\ \E fwd \in {"ok", "raise"} :
          Install(Run(Push([Machine EXCEPT
                               !.h = NewHist("async_setup_entry", <<>>,
                                             Snapshot(Machine)),
                               !.hass = NoEntry],
                           SetupFrame(fwd))),
                  NoResp)

\* lines 91-100: async_unload_entry(hass, entry) of a loaded entry;
\* unload_ok is what async_unload_platforms returns
Unload(m, unload_ok) ==
    IF unload_ok
    THEN [Close(m) EXCEPT !.hass.closes = @ + 1, !.hass.stored = FALSE,
                          !.hass.result = "Unloaded",
                          !.hass.unloaded = "True"]
    ELSE [m EXCEPT !.hass.unloaded = "False", !.sig = "ret"]

CallUnload ==
    /\ Idle
    /\ hass.result = "True"
    /\ \E unload_ok \in BOOLEAN :
          Install(Unload([Machine EXCEPT
                             !.h = NewHist("async_unload_entry", <<>>,
                                           Snapshot(Machine)),
                             !.hass.unloaded = None],
                         unload_ok),
                  NoResp)

\* the environment of the setup layer: the backend can fail every attempt of
\* one request, and the discovery response can lack its bucket list
Installing ==
    [maxfail |-> MaxFail, failures |-> {"err"}, maxlist |-> 0,
     disc |-> {ScenarioBody, [czfe_url |-> "G2"]}, loc |-> {HallBody},
     dev |-> {[updated_buckets |-> bs] :
                bs \in SeqsUpTo({DeviceBucketOf("schedule", FALSE, FALSE)},
                                MaxUpdBuckets)},
     chime |-> {ChimeBody("True")}]

\* the client as src/__init__.py constructs it (no Google authentication)
Init == InitWith(None, None)
\* a client constructed with an issue token and a cookie
InitGoogle == InitWith("issue-url", "cookie")
\* a client constructed with or without an issue token, with or without a
\* cookie
InitAny ==
    \E it \in {None, "issue-url"}, ck \in {None, "cookie"} : InitWith(it, ck)

\* a client that discovers its devices and commands them; update() is polled
\* in SpecPoll
Next ==
    \/ CallLogin
    \/ CallGetDevices(Topology)
    \/ CallCommand(Commands)
    \/ CallClose
    \/ Respond(Topology)
NextPoll == NextIn(Polling, {"thermostat_set_temperature"})
NextRetry ==
    \/ CallLogin
    \/ CallGetDevices(Retry)
    \/ CallUpdate
    \/ CallCommand(Commands)
    \/ Respond(Retry)
NextDecode ==
    \/ CallGetDevices(Decoding)
    \/ CallUpdate
    \/ Respond(Decoding)
NextLogin ==
    \/ CallLogin
    \/ CallClose
    \/ Respond(Google)
NextChime ==
    \/ CallGetDevices(Chiming)
    \/ CallUpdate
    \/ Respond(Chiming)
NextHousehold == NextIn(Household, {"thermostat_set_temperature"})
\* Home Assistant sets the entry up, the platforms poll the loaded client, and
\* the entry is unloaded
NextSetup ==
    \/ CallSetup
    \/ hass.result = "True" /\ CallUpdate
    \/ CallUnload
    \/ Respond(Installing)
NextGoogle ==
    \/ CallLogin
    \/ CallGetDevices(Google)
    \/ CallCommand({"thermostat_set_mode", "camera_get_image"})
    \/ CallClose
    \/ Respond(Google)

Spec == Init /\ [][Next]_vars
SpecPoll == Init /\ [][NextPoll]_vars
SpecRetry == Init /\ [][NextRetry]_vars
SpecGoogle == InitGoogle /\ [][NextGoogle]_vars
SpecDecode == Init /\ [][NextDecode]_vars
SpecLogin == InitAny /\ [][NextLogin]_vars
SpecChime == Init /\ [][NextChime]_vars
SpecHousehold == Init /\ [][NextHousehold]_vars
SpecSetup == Init /\ [][NextSetup]_vars

(***************************************************************************)
(* Discovery: the category lists and the Device Table.                     *)
(***************************************************************************)
\* the six category lists, in the order thermostats, temperature sensors,
\* hot-water controllers, cameras, switches, protects
CategoryLists ==
    <<thermostats, temperature_sensors, hotwatercontrollers, cameras,
      switches, protects>>

\* a call has ended and no request is awaiting its response
Ended(op) == hist.op = op /\ last.res # "running"
Returned(op) == hist.op = op /\ last.res = "ret"

\* C1: in every reachable state every ID that is in one of the six category
\* lists is a key of the Device Table
C1_ListedIdsHaveRecords ==
    \A i \in 1..6 : \A j \in 1..Len(CategoryLists[i]) :
        CategoryLists[i][j] \in DOMAIN device_data

\* the indices in CategoryLists of the lists the specification gives a prefix
ListsOfPrefix(prefix) ==
    CASE prefix = "topaz" -> {6}
      [] prefix = "kryptonite" -> {2}
      [] prefix = "device" -> {1, 2, 3}
      [] prefix = "quartz" -> {4, 5}
      [] OTHER -> {}

\* the serial suffixes, in order, of the buckets whose prefix feeds list i
RECURSIVE SerialsFor(_, _)
SerialsFor(i, buckets) ==
    IF buckets = <<>> THEN <<>>
    ELSE LET b == Head(buckets) IN
         (IF i \in ListsOfPrefix(b[1]) THEN <<SubSeq(b, 3, Len(b))>>
          ELSE <<>>) \o SerialsFor(i, Tail(buckets))

\* the buckets the last discovery response listed
ListedBuckets == hist.resp.updated_buckets[1].buckets

\* C2: when a discovery has returned, each category list is what it was
\* before the call followed by the serials of the listed buckets whose prefix
\* feeds that list, and the Device Table has gained exactly the serials of
\* the buckets with one of the four known prefixes
C2_PrefixDispatch ==
    Returned("_get_devices") =>
        /\ \A i \in 1..6 :
              CategoryLists[i] =
                  hist.pre.lists[i] \o SerialsFor(i, ListedBuckets)
        /\ DOMAIN device_data =
              DOMAIN hist.pre.dd \cup
                  {SubSeq(ListedBuckets[k], 3, Len(ListedBuckets[k])) :
                      k \in {n \in 1..Len(ListedBuckets) :
                                ListsOfPrefix(ListedBuckets[n][1]) # {}}}

\* a discovery has returned whose response listed a protect, a camera and a
\* bucket of an unknown type
C2_Witness ==
    /\ Returned("_get_devices")
    /\ ListedBuckets =
          <<Key("quartz", C1), Key("topaz", P1), Key("structure", <<"S1">>)>>
    /\ cameras = <<C1>> /\ switches = <<C1>> /\ protects = <<P1>>
    /\ DOMAIN device_data = {C1, P1}

\* the client has discovered nothing yet
Fresh(snap) ==
    /\ snap.dd = EmptyDict
    /\ \A i \in 1..6 : snap.lists[i] = <<>>

\* a discovery on a fresh client has returned whose response listed
\* device.T1, kryptonite.T1 and quartz.C1
Scenario ==
    /\ Returned("_get_devices")
    /\ Fresh(hist.pre)
    /\ ListedBuckets =
          <<Key("device", T1), Key("kryptonite", T1), Key("quartz", C1)>>

\* C3, as the specification states it: the scenario leaves every list with
\* each ID once, temperature_sensors = [T1] included, and stores the gateway
C3_ScenarioLists ==
    Scenario =>
        /\ thermostats = <<T1>>
        /\ temperature_sensors = <<T1>>
        /\ hotwatercontrollers = <<T1>>
        /\ cameras = <<C1>>
        /\ switches = <<C1>>
        /\ protects = <<>>
        /\ czfe_url = hist.resp.czfe_url

\* C3: the scenario leaves thermostats = [T1], temperature_sensors = [T1, T1]
\* (once for device.T1 and once for kryptonite.T1), hotwatercontrollers =
\* [T1], cameras = [C1], switches = [C1], protects = [] and stores the gateway
C3_ScenarioListsAsBuilt ==
    Scenario =>
        /\ thermostats = <<T1>>
        /\ temperature_sensors = <<T1, T1>>
        /\ hotwatercontrollers = <<T1>>
        /\ cameras = <<C1>>
        /\ switches = <<C1>>
        /\ protects = <<>>
        /\ czfe_url = hist.resp.czfe_url

\* the scenario has happened with the gateway G2
C3_Witness == Scenario /\ czfe_url = "G2" /\ Len(temperature_sensors) = 2

(***************************************************************************)
(* Commands.                                                               *)
(***************************************************************************)
\* the category list the specification names as the guard of a command
GuardOf(cmd, lists) ==
    IF cmd \in ThermostatCommands THEN lists[1]
    ELSE IF cmd \in HotwaterCommands THEN lists[3]
    ELSE IF cmd \in {"camera_turn_off", "camera_turn_on", "camera_get_image"}
    THEN lists[4]
    ELSE lists[5]

\* the running call is a command on a device that was not in the guard list
\* of the command when the call was made
Unguarded ==
    /\ hist.op \in Commands
    /\ ~InList(hist.dev, GuardOf(hist.op, hist.pre.lists))

\* C4: a command on a device that is not in its guard list returns at once:
\* it sends no request, opens no session, logs in never, raises nothing and
\* leaves every field of the client as it was
C4_GuardedNoOp ==
    Unguarded =>
        /\ last.res = "ret"
        /\ wire = NoWire
        /\ hist.nreq = 0
        /\ hist.opened = 0
        /\ hist.cmdlogins = 0
        /\ fin = <<>>
        /\ Snapshot(Machine) = hist.pre

\* after a discovery that found the thermostat T1 and no camera, a camera
\* command on T1 has returned
C4_Witness ==
    /\ Unguarded
    /\ hist.op = "camera_get_image"
    /\ hist.dev = T1
    /\ InList(T1, thermostats)
    /\ last.res = "ret"

\* a command has returned on a client that never ran a discovery
C4_WitnessBeforeDiscovery ==
    /\ Unguarded
    /\ czfe_url = None
    /\ hist.op = "thermostat_set_mode"
    /\ last.res = "ret"

\* C5, as the specification states it: a command whose Transport call fails
\* logs in once and is retried once; when the retry fails too there is no
\* second login and no third Transport call of the command
C5_RetriesOnce ==
    hist.op \in Commands => hist.cmdcalls <= 2 /\ hist.cmdlogins <= 1

(***************************************************************************)
(* The Transport.                                                          *)
(***************************************************************************)
\* the exception an answer of the backend raises in the attempt
ErrorOf(out) ==
    CASE out = "e401" -> "ClientResponseError401"
      [] out = "err" -> "ClientError"
      [] out = "timeout" -> "TimeoutError"
      [] OTHER -> None

\* the Transport calls that have not ended
Running == {k \in 1..Len(stack) : stack[k].fn = "req"}

\* C6: a Transport call sends between one and three requests; it returns
\* only on a successful answer, in the step that answer arrives and with
\* that answer as its value; when it raises the connectivity error of an
\* answer it has sent exactly three requests and raises the error of the
\* third
C6_AtMostThreeAttempts ==
    /\ \A k \in Running :
          stack[k].sent <= 3 /\ (stack[k].st # "start" => stack[k].sent >= 1)
    /\ \A i \in 1..Len(fin) :
          LET r == fin[i] IN
          /\ r.sent >= 1 /\ r.sent <= 3
          /\ r.res = "ret" =>
                /\ i = 1
                /\ resp.out = "ok"
                /\ r.val = resp.body
                /\ r.sent = resp.attempt + 1
          /\ (r.res = "exc" /\ r.cause = "response" /\ IsClientError(r.exc)) =>
                /\ r.sent = 3
                /\ resp.attempt = 2
                /\ r.exc = ErrorOf(resp.out)
    /\ resp.out = "ok" => fin # <<>> /\ fin[1].res = "ret"

\* a Transport call has raised the error of its third attempt, and another
\* has returned the answer to its third attempt
C6_Witness ==
    /\ fin # <<>>
    /\ fin[1].sent = 3
    /\ fin[1].res = "exc"
    /\ fin[1].cause = "response"
    /\ fin[1].exc = "ClientError"

\* the Transport call r sent three requests, the first two were answered with
\* 401 and the third with success
TwoUnauthorizedThenSuccess(r) ==
    r.sent = 3 /\ r.res = "ret" /\ r.n401 = 2

\* C7, as the specification states it: two 401 answers and then a success
\* make exactly one login and exactly one refresh of the Authorization header
C7_OneRelogin ==
    \A i \in 1..Len(fin) :
        TwoUnauthorizedThenSuccess(fin[i]) =>
            fin[i].nlogin = 1 /\ fin[i].nrefresh = 1

\* C7: two 401 answers and then a success make exactly two logins, one after
\* each 401, and two refreshes of the Authorization header when the call
\* passed headers of its own, none when it passed none
C7_ReloginPerUnauthorized ==
    \A i \in 1..Len(fin) :
        TwoUnauthorizedThenSuccess(fin[i]) =>
            /\ fin[i].nlogin = 2
            /\ fin[i].nlogdone = 2
            /\ fin[i].nrefresh = IF fin[i].hashdr THEN 2 ELSE 0

\* a call with headers of its own has returned after two 401 answers
C7_Witness ==
    /\ fin # <<>>
    /\ TwoUnauthorizedThenSuccess(fin[1])
    /\ fin[1].hashdr
    /\ fin[1].ep = "app_launch"

\* every 401 on an attempt that is not the last has started one login, no
\* other failure has started one, and an attempt is sent only when every
\* login of the call has returned
LoginPerUnauthorized ==
    /\ \A k \in Running :
          LET f == stack[k] IN
          /\ f.nlogin = f.n401
          /\ f.st = "wait" => f.nlogdone = f.nlogin /\ k = Len(stack)
          /\ f.st = "login" =>
                /\ f.nlogdone + 1 = f.nlogin
                /\ k < Len(stack)
                /\ stack[k + 1].fn = "login"
    /\ \A i \in 1..Len(fin) :
          LET r == fin[i]
              last401 == /\ r.sent = 3 /\ r.res = "exc"
                         /\ r.cause = "response"
                         /\ r.exc = "ClientResponseError401"
          IN r.nlogin = r.n401 - (IF last401 THEN 1 ELSE 0)

\* the request on the wire is the attempt that follows a 401 and its login
RetryAfterLogin ==
    /\ wire # NoWire
    /\ wire.attempt > 0
    /\ Top(Machine).prev401

Retained ==
    /\ \A sn \in DOMAIN hist.progress.dd :
          /\ sn \in DOMAIN device_data
          /\ sn # hist.failsn => device_data[sn] = hist.progress.dd[sn]
          /\ DOMAIN hist.progress.dd[sn] \subseteq DOMAIN device_data[sn]
    /\ DOMAIN hist.progress.wh \subseteq DOMAIN wheres
    /\ hist.caught_at # "decode_loc" => wheres = hist.progress.wh

DecodeStages == {"decode_loc", "decode_dev", "decode_chime"}

\* C9: update() never raises, and when a response of either pass has a
\* shape it cannot decode the call returns with everything the earlier
\* buckets merged
C9_UpdateSwallowsAndKeeps ==
    Ended("update") =>
        /\ last.res = "ret"
        /\ hist.caught_at \in DecodeStages => Retained

\* an update stopped at a bucket of the device pass it could not decode,
\* after an earlier bucket had changed the Device Table
C9_Witness ==
    /\ Returned("update")
    /\ hist.caught_at = "decode_dev"
    /\ hist.caught \in {"KeyError", "IndexError"}
    /\ hist.progress.dd # hist.pre.dd
    /\ device_data # hist.pre.dd

\* C10: an update whose location request fails leaves the Device Table and
\* the Location Map as they were; one whose device request fails leaves the
\* Device Table as it was
C10_TransportFailureKeepsTables ==
    Ended("update") =>
        /\ hist.caught_at = "loc" =>
              device_data = hist.pre.dd /\ wheres = hist.pre.wh
        /\ hist.caught_at = "dev" => device_data = hist.pre.dd

\* the device request of an update failed after an earlier update had filled
\* the record of the camera
C10_Witness ==
    /\ Returned("update")
    /\ hist.caught_at = "dev"
    /\ hist.caught \in {"ClientError", "TimeoutError"}
    /\ \E sn \in DOMAIN device_data : device_data[sn] # EmptyDict
    /\ device_data = hist.pre.dd

(***************************************************************************)
(* update() against a backend that does not change.                        *)
(***************************************************************************)
\* a backend that does not change gives the same answer to the same request:
\* b.loc to the location request, b.dev to the device request and b.chime to
\* the follow-up request of a camera
Answer(b, w) ==
    CASE w.ep = "chime" -> b.chime
      [] w.ep = "app_launch" /\ w.json.known_bucket_types = "where" -> b.loc
      [] OTHER -> b.dev

\* the coroutines of the machine m run to their end against the backend b
RECURSIVE Serve(_, _)
Serve(m, b) ==
    IF m.stack = <<>> THEN m
    ELSE Serve(Run(ReqResponse(m, "ok", Answer(b, m.wire))), b)

\* update() called on the idle machine m against the backend b
UpdateAgainst(m, b) ==
    Serve(Run(Push([m EXCEPT !.h = NewHist("update", <<>>, Snapshot(m))],
                   UpdFrame)), b)

\* the unchanging backends of the decoding environment
Backends ==
    [loc : Decoding.loc, dev : Decoding.dev, chime : Decoding.chime]

\* C11: from every state in which the client is idle (after an operation whose
\* transport calls all succeeded: a retried call leaves no trace in the tables)
\* and against every backend that does not change, the second of two update()
\* calls leaves the Device Table and the Location Map as the first left them
C11_UpdateIdempotent ==
    (Idle /\ hist.nfail = 0) =>
        \A b \in Backends :
            LET first == UpdateAgainst(Machine, b)
                second == UpdateAgainst(first, b)
            IN second.dd = first.dd /\ second.wh = first.wh

\* an update has decoded the device bucket with a description, after another
\* had found the thermostat heating, and the same answers leave the tables
\* as they are
C11_Witness ==
    /\ Returned("update")
    /\ hist.caught = None
    /\ T1 \in DOMAIN device_data
    /\ "action" \in DOMAIN device_data[T1]
    /\ device_data[T1].action = "heating"
    /\ "name" \in DOMAIN device_data[T1]
    /\ device_data[T1].name = <<"Hall", " (", "Den", ")", " Thermostat">>
    /\ \E b \in Backends :
          /\ b.dev = [updated_buckets |-> <<DeviceBucketOf("schedule", TRUE, TRUE)>>]
          /\ UpdateAgainst(Machine, b).dd = device_data
\* update() has returned and the last answer it read was a device-pass
\* response whose bucket has the given prefix and the serial sn, a serial the
\* Device Table held when the call began
DecodedBucket == resp.body.updated_buckets[1]
Decoded(prefix, sn) ==
    /\ Returned("update")
    /\ resp.out = "ok"
    /\ resp.body \in Decoding.dev
    /\ DecodedBucket.object_key = Key(prefix, sn)
    /\ sn \in DOMAIN hist.pre.dd

\* C12: after update() decodes a complete shared bucket of a discovered
\* thermostat, the action of the record is "cooling" when the cooling relay is
\* on (the heating relay on or off), "heating" when only the heating relay is
\* on and "off" when neither is, and the mode of the record is the
\* target_temperature_type of the bucket
C12_ActionAndMode ==
    Decoded("shared", T1) =>
        LET v == DecodedBucket.value
            rec == device_data[T1]
        IN /\ hist.caught = None
           /\ v.hvac_ac_state = "True" => rec.action = "cooling"
           /\ (v.hvac_ac_state = "False" /\ v.hvac_heater_state = "True")
                 => rec.action = "heating"
           /\ (v.hvac_ac_state = "False" /\ v.hvac_heater_state = "False")
                 => rec.action = "off"
           /\ rec.mode = v.target_temperature_type

\* both relays on give "cooling"
C12_Witness ==
    /\ Decoded("shared", T1)
    /\ DecodedBucket.value.hvac_ac_state = "True"
    /\ DecodedBucket.value.hvac_heater_state = "True"
    /\ device_data[T1].action = "cooling"
    /\ device_data[T1].mode = "cool"

\* the scenario of the specification: heater only, type "heat"
C12_WitnessHeating ==
    /\ Decoded("shared", T1)
    /\ DecodedBucket = SharedBucket("False", "True", "heat")
    /\ device_data[T1].action = "heating"
    /\ device_data[T1].mode = "heat"

\* the name the specification gives to a raw status code
StatusName(c) ==
    CASE c = 0 -> "Ok"
      [] c = 1 -> "Warning"
      [] c = 2 -> "Warning"
      [] c = 3 -> "Emergency"
      [] OTHER -> "Unknown"

\* C13: the protect status mapping sends 0 to "Ok", 1 and 2 to "Warning", 3
\* to "Emergency" and every other integer to "Unknown", and after update()
\* decodes a topaz bucket of a discovered protect, co_status, smoke_status and
\* battery_health_state of the record are the mappings of the raw codes
C13_ProtectStatus ==
    /\ \A c \in Codes : map_nest_protect_state(c) = StatusName(c)
    /\ Decoded("topaz", P1) =>
          LET v == DecodedBucket.value
              rec == device_data[P1]
          IN /\ hist.caught = None
             /\ rec.co_status = StatusName(v.co_status)
             /\ rec.smoke_status = StatusName(v.smoke_status)
             /\ rec.battery_health_state = StatusName(v.battery_health_state)

\* a bucket with the codes 1, 2, 3 has been decoded
C13_Witness ==
    /\ Decoded("topaz", P1)
    /\ DecodedBucket.value.co_status = 1
    /\ device_data[P1].co_status = "Warning"
    /\ device_data[P1].smoke_status = "Warning"
    /\ device_data[P1].battery_health_state = "Emergency"

\* a bucket with a code outside 0..3 has been decoded
C13_WitnessUnknown ==
    /\ Decoded("topaz", P1)
    /\ DecodedBucket.value.co_status = MaxCode
    /\ device_data[P1].co_status = "Unknown"
    /\ device_data[P1].smoke_status = "Unknown"
    /\ device_data[P1].battery_health_state = "Ok"

\* C14: after update() decodes a device bucket of a discovered thermostat,
\* the eco flag of the record is true if and only if the nested eco mode of
\* the bucket is "manual-eco" or "auto-eco"
C14_EcoFlag ==
    Decoded("device", T1) =>
        /\ hist.caught = None
        /\ device_data[T1].eco \in {"True", "False"}
        /\ device_data[T1].eco = "True"
              <=> DecodedBucket.value.eco.mode \in {"manual-eco", "auto-eco"}

\* the mode "auto-eco" has set the flag
C14_Witness ==
    /\ Decoded("device", T1)
    /\ DecodedBucket.value.eco.mode = "auto-eco"
    /\ device_data[T1].eco = "True"

\* the mode "schedule" has cleared the flag
C14_WitnessSchedule ==
    /\ Decoded("device", T1)
    /\ DecodedBucket.value.eco.mode = "schedule"
    /\ device_data[T1].eco = "False"
\* C15: while a command runs and after it has ended (returned at its guard,
\* returned after its request, retried after a login, or raised), the Device
\* Table, the Location Map and the six category lists are those of the
\* moment the command was called
C15_CommandsKeepTables ==
    hist.op \in Commands =>
        /\ device_data = hist.pre.dd
        /\ wheres = hist.pre.wh
        /\ CategoryLists = hist.pre.lists

\* a camera that an update() found streaming has been turned off, after a
\* failed request and a login, and its record still says it streams
C15_Witness ==
    /\ Returned("camera_turn_off")
    /\ hist.dev = C1
    /\ hist.cmdlogins > 0
    /\ resp.out = "ok"
    /\ C1 \in DOMAIN device_data
    /\ "streaming_state" \in DOMAIN device_data[C1]
    /\ device_data[C1].streaming_state = "True"

\* a command has raised
C15_WitnessFailed ==
    /\ hist.op \in Commands
    /\ last.res = "exc"
    /\ hist.cmdcalls > 0
\* the device pass of the update() that has ended stopped at the bucket
\* hist.failbucket, which had an object key with a serial
StoppedAtBucket ==
    /\ Ended("update")
    /\ hist.caught_at = "decode_dev"
    /\ hist.failbucket # NoneVal
    /\ hist.failsn # <<>>

\* C16: the device pass of update() never stops at a bucket whose serial is
\* not a key of the Device Table (such a bucket is skipped without error and
\* the buckets after it are decoded)
C16_UnknownSerialSkipped ==
    StoppedAtBucket => hist.failsn \in DOMAIN hist.pre.dd

\* the required fields of a kryptonite bucket
SensorRequired == {"current_temperature", "battery_level"}

\* C17: the device pass of update() never stops at a kryptonite bucket of a
\* known sensor that lacks current_temperature or battery_level (the failure
\* is confined to the record and the buckets after it are decoded)
C17_SensorFailureConfined ==
    ~ /\ StoppedAtBucket
      /\ hist.failsn \in DOMAIN hist.pre.dd
      /\ hist.failbucket.object_key = Key("kryptonite", hist.failsn)
      /\ "where_id" \in DOMAIN hist.failbucket.value
      /\ hist.failbucket.value.where_id \in DOMAIN wheres
      /\ ~(SensorRequired \subseteq DOMAIN hist.failbucket.value)
\* the Transport call r gave up: its third attempt was answered with a
\* connectivity error, which it raised
Exhausted(r) ==
    /\ r.res = "exc"
    /\ r.cause = "response"
    /\ IsClientError(r.exc)
    /\ r.sent = max_retries

\* C18: when a core method (login, discovery, update, a command, the camera
\* image fetch) ends in the step in which its Transport call gave up, it ends
\* by raising the error of that call to its caller
C18_TransportFailurePropagates ==
    (Idle /\ fin # <<>> /\ Exhausted(fin[Len(fin)])) =>
        last.res = "exc" /\ last.exc = fin[Len(fin)].exc
\* C19: when login() has raised during an operation (called directly, as the
\* re-login a 401 triggers inside a Transport call, or as the login of a failed
\* command), the operation ends by raising to its caller
C19_LoginFailurePropagates ==
    (Idle /\ hist.loginexc # None) => last.res = "exc"
\* the bootstrap response r is a JSON object without the gateway URL, or
\* without a first updated bucket that lists buckets
LacksTopology(r) ==
    /\ r # NoneVal
    /\ ~IsRaw(r)
    /\ \/ "czfe_url" \notin DOMAIN r
       \/ "updated_buckets" \notin DOMAIN r
       \/ r.updated_buckets = <<>>
       \/ "buckets" \notin DOMAIN r.updated_buckets[1]

\* C20: when the response discovery has read lacks the gateway URL or the
\* bucket list (a missing key, or updated_buckets empty), discovery ends by
\* raising KeyError or IndexError to its caller; it never returns
C20_DiscoveryRaises ==
    (Ended("_get_devices") /\ LacksTopology(hist.resp)) =>
        last.res = "exc" /\ last.exc \in {"KeyError", "IndexError"}

\* discovery has raised IndexError on a response with no updated bucket
C20_Witness ==
    /\ Ended("_get_devices")
    /\ hist.resp = [czfe_url |-> "G2", updated_buckets |-> <<>>]
    /\ last.res = "exc"
    /\ last.exc = "IndexError"

\* discovery has raised KeyError on a response without the gateway URL
C20_WitnessNoGateway ==
    /\ Ended("_get_devices")
    /\ hist.resp # NoneVal
    /\ ~IsRaw(hist.resp)
    /\ "czfe_url" \notin DOMAIN hist.resp
    /\ last.res = "exc"
    /\ last.exc = "KeyError"
\* the Transport calls a login() makes, in order, under the configuration of
\* the client
LoginFlow ==
    IF issue_token # None /\ cookie # None
    THEN <<"issue", "jwt", "dropcam">>
    ELSE <<"dropcam">>

IsPrefix(p, q) == Len(p) <= Len(q) /\ SubSeq(q, 1, Len(p)) = p

\* C21: a login() that returns has awaited the session-registration call
\* last, and the issue-token call and the JWT call before it exactly when an
\* issue token and a cookie are both configured; a login() that raises has
\* made its calls in that order up to the one that failed, so that no
\* session-registration call follows a failed Google flow
C21_LoginOrder ==
    /\ hist.logflow # <<>> => hist.logflow = LoginFlow
    /\ hist.logfail # <<>> => IsPrefix(hist.logfail, LoginFlow)

\* a login() has returned after the Google flow and the registration
C21_Witness ==
    /\ Returned("login")
    /\ hist.logflow = <<"issue", "jwt", "dropcam">>

\* a login() without a cookie has returned after the registration alone
C21_WitnessNoCookie ==
    /\ Returned("login")
    /\ issue_token # None
    /\ cookie = None
    /\ hist.logflow = <<"dropcam">>

\* a login() has raised in the Google flow
C21_WitnessGoogleRaised ==
    /\ Ended("login")
    /\ last.res = "exc"
    /\ hist.logfail = <<"issue", "jwt">>
\* C22: at most one session is open at any time, and it is the one the
\* client holds; a session is created only by a call that began without one;
\* close() returns, leaves no session open and changes nothing else, and on
\* a client without a session it changes nothing at all
C22_OneSession ==
    /\ live = IF session.open THEN 1 ELSE 0
    /\ hist.opened <= 1
    /\ hist.opened = 1 => ~hist.pre.ses.open
    /\ hist.op = "close" =>
          /\ last.res = "ret"
          /\ ~session.open
          /\ hist.opened = 0 /\ hist.nreq = 0
          /\ Snapshot(Machine) = [hist.pre EXCEPT !.ses = NoSession]
          /\ ~hist.pre.ses.open => session = hist.pre.ses

\* close() has closed the session a login() opened
C22_Witness ==
    /\ hist.op = "close"
    /\ hist.pre.ses.open
    /\ ~session.open
    /\ live = 0

\* close() has run on a client without a session
C22_WitnessNoSession ==
    /\ hist.op = "close"
    /\ ~hist.pre.ses.open
    /\ access_token # "tok0"

\* a session has been created after a close()
C22_WitnessReopened ==
    /\ hist.op = "login"
    /\ hist.opened = 1
    /\ access_token # "tok0"
\* C23: a Transport call that raises the timeout of a request has sent three
\* requests (a timeout is retried like every other transport failure)
C23_TimeoutRetried ==
    \A i \in 1..Len(fin) :
        (fin[i].res = "exc" /\ fin[i].cause = "response"
            /\ fin[i].exc = "TimeoutError")
        => fin[i].sent = max_retries
\* C24: every write request of a command that is on the wire is addressed to
\* the gateway URL the client holds, which a discovery has stored, and its
\* Authorization header carries the current token (after a re-login, the
\* token of that re-login); only discovery changes the gateway URL
C24_WritesToGatewayWithToken ==
    /\ wire.ep = "put" =>
          /\ czfe_url # None
          /\ wire.url = <<czfe_url, "/v5/put">>
          /\ wire.auth = Basic(access_token)
    /\ hist.op # "_get_devices" => czfe_url = hist.pre.czfe

\* the retry of a command is on the wire after a re-login that changed the
\* token
C24_Witness ==
    /\ wire.ep = "put"
    /\ hist.op = "thermostat_set_mode"
    /\ hist.cmdlogins > 0
    /\ access_token # hist.pre.tok
    /\ wire.auth = Basic(access_token)
    /\ wire.url = <<"G1", "/v5/put">>

\* an attempt of a write is on the wire after the re-login a 401 started
C24_WitnessUnauthorized ==
    /\ wire.ep = "put"
    /\ wire.attempt > 0
    /\ hist.cmdlogins = 0
    /\ access_token # hist.pre.tok
\* the operations of normal use: everything but construction and discovery
NormalOps == {"update", "login", "close"} \cup Commands

\* C25: while and after update(), login(), a command or close() runs, the
\* Device Table has the keys it had when the call began and every record
\* has at least the fields it had, the category lists are unchanged, and the
\* Location Map has at least the entries it had
C25_NothingRemoved ==
    hist.op \in NormalOps =>
        /\ DOMAIN device_data = DOMAIN hist.pre.dd
        /\ \A sn \in DOMAIN hist.pre.dd :
              DOMAIN hist.pre.dd[sn] \subseteq DOMAIN device_data[sn]
        /\ CategoryLists = hist.pre.lists
        /\ DOMAIN hist.pre.wh \subseteq DOMAIN wheres

\* an update() has added fields to a record that had some, on a client that
\* has locations
C25_Witness ==
    /\ Returned("update")
    /\ hist.pre.wh # EmptyDict
    /\ \E sn \in DOMAIN hist.pre.dd :
          /\ hist.pre.dd[sn] # EmptyDict
          /\ DOMAIN device_data[sn] # DOMAIN hist.pre.dd[sn]

\* an update() has added a location to a map that had some
C25_WitnessLocation ==
    /\ Returned("update")
    /\ hist.pre.wh # EmptyDict
    /\ DOMAIN wheres # DOMAIN hist.pre.wh

\* close() has run on a client with records and locations
C25_WitnessClose ==
    /\ hist.op = "close"
    /\ wheres # EmptyDict
    /\ \E sn \in DOMAIN device_data : device_data[sn] # EmptyDict
\* the hot-water sub-fields of a thermostat record
HotWaterFields ==
    {"hot_water_status", "hot_water_actively_heating",
     "hot_water_away_active", "hot_water_timer_mode",
     "hot_water_away_setting", "hot_water_boost_setting"}

\* C26, as the specification states it: a record whose has_hot_water_control
\* is false has none of the hot-water sub-fields
C26_NoHotWaterFields ==
    \A sn \in DOMAIN device_data :
        ("has_hot_water_control" \in DOMAIN device_data[sn]
            /\ device_data[sn].has_hot_water_control = "False")
        => HotWaterFields \cap DOMAIN device_data[sn] = {}

\* C26, as the code has it: a record has all six hot-water sub-fields or
\* none, and has them only with the flag; after update() decodes a device
\* bucket that declares no hot-water control the flag is false and the
\* sub-fields are those the record had when the call began, with their
\* values; after one that declares it the flag is true and all six are there
C26_HotWaterFieldsKept ==
    /\ \A sn \in DOMAIN device_data :
          LET hw == HotWaterFields \cap DOMAIN device_data[sn] IN
          /\ hw = {} \/ hw = HotWaterFields
          /\ hw # {} => "has_hot_water_control" \in DOMAIN device_data[sn]
    /\ Decoded("device", T1) =>
          LET rec == device_data[T1]
              old == hist.pre.dd[T1]
              v == DecodedBucket.value
          IN IF "has_hot_water_control" \in DOMAIN v
                /\ v.has_hot_water_control = "True"
             THEN /\ rec.has_hot_water_control = "True"
                  /\ HotWaterFields \subseteq DOMAIN rec
             ELSE /\ rec.has_hot_water_control = "False"
                  /\ \A k \in HotWaterFields :
                        /\ k \in DOMAIN rec <=> k \in DOMAIN old
                        /\ k \in DOMAIN rec => rec[k] = old[k]

\* a device that had declared hot-water control no longer declares it: the
\* flag is false and the sub-fields of the earlier update are still there
C26_Witness ==
    /\ Decoded("device", T1)
    /\ "has_hot_water_control" \notin DOMAIN DecodedBucket.value
    /\ device_data[T1].has_hot_water_control = "False"
    /\ HotWaterFields \subseteq DOMAIN device_data[T1]
    /\ device_data[T1].hot_water_status = "True"
\* C27: the write request of a set-temperature command carries, in the value
\* document of its MERGE, only target_temperature in the single-target form,
\* and exactly the low target, the high target and the mode tag "range" in
\* the range form
C27_WritesOnlyChangedField ==
    (wire.ep = "put" /\ hist.op = "thermostat_set_temperature") =>
        LET arg == stack[1].arg IN
        IF arg.high = None
        THEN wire.json.value = [target_temperature |-> arg.temp]
        ELSE wire.json.value = [target_temperature_low |-> arg.temp,
                                target_temperature_high |-> arg.high,
                                target_temperature_type |-> "range"]

\* the serial a bucket of the device pass names
BucketSn(b) == Split(b.object_key)[2]

\* a quartz bucket of a discovered camera that lists the chime capability
ChimeCapable(b) ==
    /\ StartsWith(b.object_key, <<"quartz", ".">>)
    /\ InList(BucketSn(b), cameras)
    /\ "indoor_chime" \in b.value.capabilities

\* the index in buckets of the first bucket with the chime capability, 0 when
\* there is none
FirstChime(buckets) ==
    LET S == {i \in 1..Len(buckets) : ChimeCapable(buckets[i])} IN
    IF S = {} THEN 0 ELSE CHOOSE i \in S : \A j \in S : i <= j

\* the bodies of a follow-up response without the item or without the property
LacksChime(body) ==
    /\ ~IsRaw(body)
    /\ \/ "items" \notin DOMAIN body
       \/ body.items = <<>>
       \/ "chime" \notin DOMAIN body.items[1]

\* this step delivers the response of the device pass of update()
DevicePassBegins ==
    /\ Len(stack) = 2 /\ stack[1].fn = "upd" /\ stack[1].st = "dev"
    /\ resp'.out = "ok" /\ ~IsRaw(resp'.body)
    /\ "updated_buckets" \in DOMAIN resp'.body

\* this step delivers a decodable response of the chime follow-up
FollowUpAnswered ==
    /\ Len(stack) = 2 /\ stack[1].fn = "upd" /\ stack[1].st = "chime"
    /\ resp'.out = "ok" /\ ~IsRaw(resp'.body)

\* the pass over buckets, of which done were decoded before this step: the
\* next follow-up is the first call for the first capable bucket, the pass
\* returns only when no capable bucket is left, and it stops only before one
PassGoesOn(buckets, done) ==
    LET k == FirstChime(buckets) IN
    IF stack' # <<>>
    THEN /\ k > 0
         /\ Len(stack') = 2 /\ stack'[1].st = "chime"
         /\ stack'[1].sn = BucketSn(buckets[k])
         /\ stack'[1].rest = SubSeq(buckets, k + 1, Len(buckets))
         /\ wire'.ep = "chime" /\ wire'.attempt = 0
         /\ wire'.url = CAMERA_WEBAPI_BASE \o BucketSn(buckets[k])
         /\ hist'.ndone = done + k - 1
    ELSE /\ hist'.caught = None => k = 0 /\ hist'.ndone = done + Len(buckets)
         /\ hist'.caught # None =>
                /\ hist'.caught_at = "decode_dev"
                /\ hist'.ndone < done + Len(buckets)
                /\ k > 0 => hist'.ndone < done + k - 1

\* C28: in one update() the device pass sends one chime follow-up for each
\* quartz bucket of a discovered camera that lists "indoor_chime", in the order
\* of the buckets, and none for any other bucket; a follow-up response without
\* the item or the property leaves the camera's record as it was when the
\* follow-up was sent (indoor_chime true, the chime_state of before) and the
\* pass goes on with the later buckets
C28_ChimeFollowUp ==
    [][/\ DevicePassBegins =>
            PassGoesOn(resp'.body.updated_buckets, hist.ndone)
       /\ FollowUpAnswered =>
            PassGoesOn(stack[1].rest, hist.ndone + 1)
       /\ (FollowUpAnswered /\ LacksChime(resp'.body)) =>
            LET sn == stack[1].sn IN
            /\ device_data[sn].indoor_chime = "True"
            /\ hist'.progress.dd[sn] = device_data[sn]
               \/ \E i \in 1..Len(stack[1].rest) :
                    BucketSn(stack[1].rest[i]) = sn]_vars

\* an update has returned after a follow-up response without the item, the
\* camera C1 is marked chime-capable, and the sensor bucket behind the
\* camera's was decoded
C28_Witness ==
    /\ Returned("update") /\ hist.caught = None
    /\ resp.out = "ok" /\ resp.body = [items |-> <<>>]
    /\ hist.ndone = 2
    /\ "indoor_chime" \in DOMAIN device_data[C1]
    /\ device_data[C1].indoor_chime = "True"
    /\ "chime_state" \notin DOMAIN device_data[C1]
    /\ "battery_level" \in DOMAIN device_data[T1]

\* an update sent two follow-ups, one for each of two capable buckets: the
\* second one is awaiting its response
C28_WitnessTwoFollowUps ==
    /\ hist.op = "update" /\ wire.ep = "chime"
    /\ hist.ndone = 1 /\ stack[1].rest = <<>>

\* an update decoded a camera bucket without the capability and returned
\* without any follow-up
C28_WitnessNoCapability ==
    /\ Returned("update") /\ hist.caught = None
    /\ hist.ndone = 1 /\ hist.nreq = 2
    /\ "indoor_chime" \in DOMAIN device_data[C1]
    /\ device_data[C1].indoor_chime = "False"

\* C29: a login() that has raised, at whichever step, has left the token and
\* the user ID as they were before the call
C29_FailedLoginKeepsCredential ==
    (Ended("login") /\ last.res = "exc") =>
        /\ access_token = hist.pre.tok
        /\ user_id = hist.pre.uid

\* the record discovery seeds for the protect P1 from the rich payload
SeededProtect == ProtectStatic(RichProtect)

\* C30: once discovery has listed the protect P1, its record holds, after any
\* number of update() calls, the static fields with the values discovery
\* seeded: model, device_info, born_on_date, replace_by_date,
\* kl_software_version, and under network the wifi and the thread MAC address
C30_StaticProtectFieldsKept ==
    InList(P1, protects) =>
        LET rec == device_data[P1] IN
        /\ \A k \in DOMAIN SeededProtect \ {"network"} :
                k \in DOMAIN rec /\ rec[k] = SeededProtect[k]
        /\ "network" \in DOMAIN rec
        /\ "mac" \in DOMAIN rec.network.wifi
        /\ rec.network.wifi.mac = SeededProtect.network.wifi.mac
        /\ "mac" \in DOMAIN rec.network.thread
        /\ rec.network.thread.mac = SeededProtect.network.thread.mac

\* C31: whenever update() has returned, every thermostat's record that holds
\* the two relay states holds the action derived from them: "cooling" when the
\* cooling relay is on, else "heating" when the heating relay is on, else "off"
C31_ActionFollowsRelays ==
    Ended("update") =>
        \A i \in 1..Len(thermostats) :
            LET rec == device_data[thermostats[i]] IN
            {"hvac_ac_state", "hvac_heater_state"} \subseteq DOMAIN rec =>
                "action" \in DOMAIN rec /\ rec.action = Action(rec)

\* the Transport calls on the stack that await a login() they started after
\* an HTTP 401
Relogins == {i \in 1..Len(stack) : stack[i].fn = "req" /\ stack[i].st = "login"}

\* C32: the login() that a Transport call starts after an HTTP 401 does not
\* start another one from its own Transport calls: never are two such logins
\* in progress at once, so that a Transport call ends after a number of
\* requests that does not depend on how long the backend keeps answering 401
C32_ReloginNotNested == Cardinality(Relogins) <= 1

\* the invocations of a command in progress: the caller's and the ones the
\* command made of itself
SelfCalls == {i \in 1..Len(stack) : stack[i].fn = "cmd"}

\* C33: one invocation of a command sends a bounded number of write requests
\* however long the write endpoint fails while login() succeeds: the command
\* invokes itself at most once, so that it makes at most two Transport calls
\* of max_retries requests each
C33_WritesBounded == Cardinality(SelfCalls) <= 2

\* C34: a discovery that has raised KeyError or IndexError, because its
\* response lacks a key or an element it requires, has left the six category
\* lists, the Device Table and the gateway URL as they were before the call
C34_FailedDiscoveryKeepsTopology ==
    (Ended("_get_devices") /\ last.res = "exc"
        /\ last.exc \in {"KeyError", "IndexError"}) =>
        /\ CategoryLists = hist.pre.lists
        /\ device_data = hist.pre.dd
        /\ czfe_url = hist.pre.czfe

\* C35: a discovery that returns on a client that discovered the same
\* household before leaves the six category lists as the first discovery
\* built them, and every record of the Device Table keeps the fields it held
C35_RediscoveryIdempotent ==
    (Returned("_get_devices") /\ hist.pre.czfe # None
        /\ hist.resp = ScenarioBody) =>
        /\ CategoryLists = hist.pre.lists
        /\ \A sn \in DOMAIN hist.pre.dd :
                /\ sn \in DOMAIN device_data
                /\ \A k \in DOMAIN hist.pre.dd[sn] :
                        /\ k \in DOMAIN device_data[sn]
                        /\ device_data[sn][k] = hist.pre.dd[sn][k]

C36_WitnessRaisedInLoop ==
    /\ Ended("_get_devices") /\ last.res = "exc"
    /\ hist.pre.lists = <<<<>>, <<>>, <<>>, <<>>, <<>>, <<>>>>
    /\ CategoryLists # hist.pre.lists
    /\ czfe_url # None

\* C37: an attempt that is sent again after a login that followed an HTTP 401
\* carries the current token wherever the request carries a credential: in the
\* Authorization header of a call that passed one, in the user_token cookie of
\* the camera image and chime requests, and in the access_token form field of
\* the session-registration request
C37_RetryCarriesNewCredential ==
    RetryAfterLogin =>
        /\ wire.ep \in {"put", "app_launch"} => wire.auth = Basic(access_token)
        /\ wire.ep \in {"image", "chime"} => wire.cookie = access_token
        /\ wire.ep = "dropcam" => wire.form = access_token

\* the fields of a camera's record that the decoder writes before it awaits
\* the follow-up call
CameraFirstHalf == {"name", "model", "streaming_state", "indoor_chime"}

\* C38: at every point where update() is suspended in a Transport call, the
\* records are whole: each equals its value after the last bucket that was
\* decoded completely, except the record of the one camera whose chime
\* follow-up is awaited, which holds the fields that precede the follow-up
\* and its chime_state of before
C38_RecordsWholeAtSuspension ==
    (hist.op = "update" /\ wire # NoWire) =>
        IF stack[1].st = "chime"
        THEN LET c == stack[1].sn IN
             /\ InList(c, cameras)
             /\ \A sn \in DOMAIN device_data \ {c} :
                    device_data[sn] = hist.progress.dd[sn]
             /\ CameraFirstHalf \subseteq DOMAIN device_data[c]
             /\ \A k \in DOMAIN device_data[c] \ CameraFirstHalf :
                    /\ k \in DOMAIN hist.progress.dd[c]
                    /\ device_data[c][k] = hist.progress.dd[c][k]
        ELSE device_data = hist.progress.dd

\* update() is suspended in the follow-up call of the camera C1 after it
\* decoded the shared bucket of the thermostat T1 in the same pass: the
\* thermostat's record holds the relay states and the action, the camera's
\* holds the streaming state and no chime_state yet
C38_Witness ==
    /\ hist.op = "update" /\ wire.ep = "chime"
    /\ hist.ndone = 1
    /\ "action" \notin DOMAIN hist.pre.dd[T1]
    /\ "action" \in DOMAIN device_data[T1]
    /\ device_data[T1].action = Action(device_data[T1])
    /\ "streaming_state" \in DOMAIN device_data[C1]
    /\ "chime_state" \notin DOMAIN device_data[C1]

\* the {where_id, name} pairs of a location-pass response, in its order
RECURSIVE WherePairs(_)
WherePairs(buckets) ==
    IF buckets = <<>> THEN <<>>
    ELSE Head(buckets).value.wheres \o WherePairs(Tail(buckets))

\* the name the pairs give the location id: the one of the last pair with id
NameIn(pairs, id) ==
    LET S == {i \in 1..Len(pairs) : pairs[i].where_id = id}
    IN pairs[CHOOSE i \in S : \A j \in S : j <= i].name

\* the Location Map is the map of before the call with the names of the pairs
\* written over it
MergedFrom(before, pairs) ==
    LET ids == {pairs[i].where_id : i \in 1..Len(pairs)} IN
    /\ DOMAIN wheres = (DOMAIN before) \cup ids
    /\ \A id \in ids : wheres[id] = NameIn(pairs, id)
    /\ \A id \in (DOMAIN before) \ ids : wheres[id] = before[id]

\* the device-pass request of update() is on the wire
DevicePassPending ==
    /\ hist.op = "update" /\ wire # NoWire
    /\ Len(stack) = 2 /\ stack[1].st = "dev"

\* the device-pass request has just been sent: the step that put it on the
\* wire delivered the location-pass response
DevicePassSent ==
    /\ DevicePassPending /\ wire.attempt = 0
    /\ resp.out = "ok" /\ "updated_buckets" \in DOMAIN resp.body

\* update() has returned without an exception and the last answer it read was
\* the device-pass response
PassReturned ==
    /\ Returned("update") /\ hist.caught = None
    /\ resp.out = "ok" /\ "updated_buckets" \in DOMAIN resp.body

\* the buckets of the pass that give their device a display name
NamingBuckets ==
    {b \in {resp.body.updated_buckets[i] :
              i \in 1..Len(resp.body.updated_buckets)} :
        StartsWith(b.object_key, <<"device", ".">>)}

\* every device bucket of the pass left the display name built from the
\* Location Map
NamesFromMap ==
    \A b \in NamingBuckets :
        device_data[BucketSn(b)].name
            = <<wheres[b.value.where_id], " Thermostat">>

\* C39, as the specification states it: the device pass starts on the merged
\* map and every display name of a successful update() is built from a
\* location name that the location pass of the same update() returned
C39_NamesFromSameUpdate ==
    /\ DevicePassSent =>
            MergedFrom(hist.pre.wh, WherePairs(resp.body.updated_buckets))
    /\ PassReturned =>
            /\ NamesFromMap
            /\ \A b \in NamingBuckets :
                    b.value.where_id \in DOMAIN hist.returned

\* C39: the device-pass request of update() is sent when the whole
\* location-pass response has been merged into the Location Map, a returned
\* name replacing the known one and the locations that were not returned
\* keeping theirs; the device pass leaves the map alone, and every display
\* name of a successful update() is built from the name the merged map holds:
\* the one this update() returned, or the kept one when it returned none
C39_NamesFromMergedMap ==
    /\ DevicePassSent =>
            MergedFrom(hist.pre.wh, WherePairs(resp.body.updated_buckets))
    /\ DevicePassPending =>
            /\ \A id \in DOMAIN hist.returned :
                    wheres[id] = hist.returned[id]
            /\ \A id \in (DOMAIN hist.pre.wh) \ DOMAIN hist.returned :
                    wheres[id] = hist.pre.wh[id]
    /\ PassReturned =>
            /\ NamesFromMap
            /\ \A id \in DOMAIN hist.returned :
                    wheres[id] = hist.returned[id]
            /\ \A id \in (DOMAIN hist.pre.wh) \ DOMAIN hist.returned :
                    wheres[id] = hist.pre.wh[id]

\* an update has returned after its location pass renamed W1 from "Hall" to
\* "Lounge": the thermostat's display name is built from the new name
C39_Witness ==
    /\ PassReturned
    /\ "W1" \in DOMAIN hist.pre.wh /\ hist.pre.wh["W1"] = "Hall"
    /\ hist.returned = [W1 |-> "Lounge"]
    /\ T1 \in DOMAIN device_data /\ "name" \in DOMAIN device_data[T1]
    /\ device_data[T1].name = <<"Lounge", " Thermostat">>
    /\ NamingBuckets # {}

\* an update whose location pass returned only W2 has named the thermostat after
\* the name W1 kept from an earlier update
C39_WitnessKept ==
    /\ PassReturned
    /\ hist.returned = [W2 |-> "Loft"]
    /\ "W1" \in DOMAIN hist.pre.wh
    /\ wheres["W1"] = hist.pre.wh["W1"]
    /\ T1 \in DOMAIN device_data /\ "name" \in DOMAIN device_data[T1]
    /\ device_data[T1].name = <<wheres["W1"], " Thermostat">>
    /\ NamingBuckets # {}

\* C40: the setup layer releases what it acquires: when async_setup_entry
\* returns False the session it created is closed, and a client stored by a
\* successful setup is closed once, and its session with it, when its entry
\* is unloaded successfully
C40_SetupReleasesSession ==
    /\ (Ended("async_setup_entry") /\ hass.result = "False") =>
            ~session.open /\ live = 0
    /\ (Ended("async_unload_entry") /\ hass.unloaded = "True") =>
            /\ hass.closes = 1 /\ ~hass.stored
            /\ ~session.open /\ live = 0
====
